---- MODULE Spec2Model ----
(***************************************************************************)
(* Verification model of ClaudeCode-Debugger:                              *)
(*   - core/template_system.py  (AdvancedTemplateSystem, TemplateCache)    *)
(*   - core/generator.py        (PromptGenerator.generate)                 *)
(*   - core/advanced_detector.py (AdvancedErrorDetector)                   *)
(*   - core/performance_optimizer.py (StreamProcessor,                     *)
(*                                    ParallelErrorDetector)               *)
(***************************************************************************)
EXTENDS Integers, Sequences, FiniteSets, TLC

VARIABLES
    disk,               \* template directory: file stem -> parsed YAML content
    templates,          \* AdvancedTemplateSystem.templates
    template_versions,  \* AdvancedTemplateSystem.template_versions
    dependencies,       \* AdvancedTemplateSystem.dependencies (defaultdict(set))
    cache,              \* TemplateCache.cache
    edits,              \* number of file writes so far (bounded)
    lastReload,         \* history: stem of the file last passed to reload_template
    ret,                \* outcome of the last call: [op, arg, val, err]
    det,                \* detector run: [op, text, arg, val, err]
    scan,               \* scanner run: [op, text, chunk_size, overlap, val]
    now,                \* datetime.now().timestamp(), in seconds
    user_disk,          \* ~/.ccdebug/templates: file stem -> parsed YAML content
    self_patterns,      \* AdvancedErrorDetector.patterns
    _cache,             \* AdvancedErrorDetector._cache: key -> results
    inflight            \* calls in progress on other threads: thread -> frame

vars == <<disk, templates, template_versions, dependencies, cache, edits,
          lastReload, ret, det, scan, now, user_disk, self_patterns, _cache,
          inflight>>

tsVars == <<disk, templates, template_versions, dependencies, cache, edits,
            lastReload, ret, now, user_disk>>

detVars == <<det, self_patterns, _cache>>

(***************************************************************************)
(* Bounds                                                                  *)
(***************************************************************************)
\* number of file writes explored
MaxEdits == 1
\* depth at which the interpreter raises RecursionError (recursion limit)
MaxDepth == 5

(***************************************************************************)
(* Template files                                                          *)
(***************************************************************************)
Stems == {"a", "b", "general"}

NoErr == "ok"
None == [none |-> TRUE]
\* no call is in progress
NoCalls == <<>>
NoVersion == [version |-> "none"]
NoName == "-"

\* A body is a sequence of fragments <<kind, value>>.
Text(v) == <<"text", v>>
ExtendsTag(p) == <<"extends", p>>

\* Parsed YAML documents a template file may hold.
Contents ==
         { [template |-> <<Text(v)>>] : v \in {"v1", "v2"} }
    \cup { [extends |-> p] : p \in Stems }
    \cup { [extends |-> p, template |-> <<Text("v1")>>] : p \in Stems }
    \cup { [includes |-> <<p>>, template |-> <<Text("v1")>>] : p \in Stems }

\* bool(x) of a value returned by _resolve_template / TemplateCache.get
Truthy(d) == d # None /\ DOMAIN d # {}

Has(d, k) == k \in DOMAIN d

(***************************************************************************)
(* TemplateCache                                                           *)
(***************************************************************************)
ResolvedKey(name) == <<"resolved_", name>>
CompiledKey(name) == <<"compiled_", name>>
PlainKey(name) == <<"", name>>

\* TemplateCache(ttl=3600)
Ttl == 3600

\* a bug: the age of the entry is not looked at
CacheGet_NoTtl(c, key, version, t) ==
    IF key \in DOMAIN c /\ c[key].version = version THEN c[key].data ELSE None

\* get: t is datetime.now().timestamp() at the call
CacheGet(c, key, version, t) ==
    IF /\ key \in DOMAIN c
       /\ c[key].version = version
       /\ (t - c[key].timestamp) < Ttl
    THEN c[key].data ELSE None

\* set: t is datetime.now().timestamp() at the call
CacheSet(c, key, value, version, t) ==
    [k \in DOMAIN c \cup {key} |->
        IF k = key
        THEN [data |-> value, timestamp |-> t, version |-> version]
        ELSE c[k]]

CacheInvalidate(c, key) == [k \in DOMAIN c \ {key} |-> c[k]]

EmptyCache == [k \in {} |-> None]

(***************************************************************************)
(* Template store                                                          *)
(***************************************************************************)
NoDeps == [n \in Stems |-> {}]

\* hashlib.md5(content).hexdigest(): a collision-free digest of the content
ContentHash(content) == [version |-> content]

SeqRange(s) == { s[i] : i \in 1..Len(s) }

DeclaredDeps(data) ==
    (IF Has(data, "extends") THEN {data.extends} ELSE {})
    \cup (IF Has(data, "includes") THEN SeqRange(data.includes) ELSE {})

\* _load_template: st is [templates, template_versions, dependencies]
LoadTemplate(st, dsk, stem) ==
    IF stem \notin DOMAIN dsk THEN st
    ELSE [ templates |-> [n \in DOMAIN st.templates \cup {stem} |->
                            IF n = stem THEN dsk[stem] ELSE st.templates[n]],
           template_versions |->
                [n \in DOMAIN st.template_versions \cup {stem} |->
                    IF n = stem THEN ContentHash(dsk[stem])
                    ELSE st.template_versions[n]],
           dependencies |-> [st.dependencies EXCEPT
                                ![stem] = @ \cup DeclaredDeps(dsk[stem])] ]

RECURSIVE HasCircularDependency(_, _, _)
HasCircularDependency(deps, name, visited) ==
    IF name \in visited THEN TRUE
    ELSE \E dep \in deps[name] :
            HasCircularDependency(deps, dep, visited \cup {name})

\* _resolve_dependencies: visits the templates in dict (insertion) order
RECURSIVE ResolveDependencies(_, _, _)
ResolveDependencies(deps, order, i) ==
    IF i > Len(order) THEN deps
    ELSE ResolveDependencies(
            IF HasCircularDependency(deps, order[i], {})
            THEN [deps EXCEPT ![order[i]] = {}] ELSE deps,
            order, i + 1)

\* _get_dependents: [val, err]; err is RecursionError past the recursion limit
RECURSIVE GetDependents(_, _, _)
GetDependents(deps, name, depth) ==
    IF depth > MaxDepth THEN [val |-> {}, err |-> "RecursionError"]
    ELSE LET direct == { n \in DOMAIN deps : name \in deps[n] }
             sub == [n \in direct |-> GetDependents(deps, n, depth + 1)]
         IN IF \E n \in direct : sub[n].err # NoErr
            THEN [val |-> {}, err |-> "RecursionError"]
            ELSE [val |-> direct \cup UNION { sub[n].val : n \in direct },
                  err |-> NoErr]

(***************************************************************************)
(* Resolution, compilation, rendering                                      *)
(***************************************************************************)
Result(v, c, e) == [val |-> v, cache |-> c, err |-> e]

VersionOf(st, name) ==
    IF name \in DOMAIN st.template_versions
    THEN st.template_versions[name] ELSE NoVersion

\* merged = parent.copy(); merged.update(resolved); template strings of a
\* parent and a child that both have one become an {% extends %} wrapper
MergeWithParent(parent, resolved, parent_name) ==
    LET merged == [k \in DOMAIN parent \cup DOMAIN resolved |->
                     IF k \in DOMAIN resolved THEN resolved[k] ELSE parent[k]]
    IN IF Has(parent, "template") /\ Has(resolved, "template")
       THEN [merged EXCEPT
                !["template"] = <<ExtendsTag(parent_name)>> \o resolved.template]
       ELSE merged

SetTemplate(d, body) ==
    [k \in DOMAIN d \cup {"template"} |-> IF k = "template" THEN body ELSE d[k]]

RECURSIVE ResolveTemplate(_, _, _, _)
RECURSIVE ResolveIncludes(_, _, _, _, _, _)

\* the loop over resolved['includes']; acc is includes_content
ResolveIncludes(st, c, names, i, depth, acc) ==
    IF i > Len(names) THEN Result(acc, c, NoErr)
    ELSE LET r == ResolveTemplate(st, c, names[i], depth + 1)
         IN IF r.err # NoErr THEN r
            ELSE ResolveIncludes(st, r.cache, names, i + 1, depth,
                    IF Truthy(r.val) /\ Has(r.val, "template")
                    THEN acc \o r.val.template ELSE acc)

\* _resolve_template
ResolveTemplate(st, c, name, depth) ==
    IF depth > MaxDepth THEN Result(None, c, "RecursionError")
    ELSE
    LET version == VersionOf(st, name)
        cached == CacheGet(c, ResolvedKey(name), version, st.now)
    IN  IF Truthy(cached) THEN Result(cached, c, NoErr)
        ELSE IF name \notin DOMAIN st.templates THEN Result(None, c, NoErr)
        ELSE
        LET own == st.templates[name]
            inh == IF Has(own, "extends")
                   THEN LET p == ResolveTemplate(st, c, own.extends, depth + 1)
                        IN IF p.err # NoErr THEN p
                           ELSE IF Truthy(p.val)
                           THEN Result(MergeWithParent(p.val, own, own.extends),
                                       p.cache, NoErr)
                           ELSE Result(own, p.cache, NoErr)
                   ELSE Result(own, c, NoErr)
        IN  IF inh.err # NoErr THEN inh
            ELSE
            LET inc == IF Has(inh.val, "includes")
                       THEN ResolveIncludes(st, inh.cache, inh.val.includes, 1,
                                            depth, <<>>)
                       ELSE Result(<<>>, inh.cache, NoErr)
            IN  IF inc.err # NoErr THEN inc
                ELSE
                LET resolved ==
                        IF inc.val # <<>>
                        THEN SetTemplate(inh.val,
                                inc.val \o (IF Has(inh.val, "template")
                                            THEN inh.val.template ELSE <<>>))
                        ELSE inh.val
                IN Result(resolved,
                          CacheSet(inc.cache, ResolvedKey(name), resolved, version,
                                   st.now),
                          NoErr)

\* env.from_string(template_str): the compiled template keeps the body
Compile(body) == [compiled |-> body]

\* get_template
GetTemplate(st, c, name) ==
    LET version == VersionOf(st, name)
        cached == CacheGet(c, CompiledKey(name), version, st.now)
    IN  IF Truthy(cached) THEN Result(cached, c, NoErr)
        ELSE LET r == ResolveTemplate(st, c, name, 1)
             IN IF r.err # NoErr THEN r
                ELSE IF ~Truthy(r.val) THEN Result(None, r.cache, "TemplateNotFound")
                ELSE LET template == Compile(IF Has(r.val, "template")
                                             THEN r.val.template ELSE <<>>)
                     IN Result(template,
                               CacheSet(r.cache, CompiledKey(name), template, version,
                                        st.now),
                               NoErr)

\* Template.render: an {% extends "<p>_base" %} tag is looked up by the
\* FileSystemLoader, which holds only the *.yaml files of the template dirs
HasExtendsTag(body) == \E i \in 1..Len(body) : body[i][1] = "extends"

\* render, lines 485-488: the context is built from the resolved data and
\* the compiled template is rendered
RenderWith(template_name, compiled, d) ==
    IF d.err # NoErr THEN d
    ELSE IF HasExtendsTag(compiled)
    THEN Result(None, d.cache, "TemplateNotFound")
    ELSE Result([text |-> compiled, name |-> template_name], d.cache, NoErr)

\* render, lines 477-483: t is the outcome of get_template
RenderTemplate(st, template_name, t) ==
    IF t.err # NoErr THEN t
    ELSE RenderWith(template_name, t.val.compiled,
                    ResolveTemplate(st, t.cache, template_name, 1))

\* render
Render(st, c, template_name) ==
    RenderTemplate(st, template_name, GetTemplate(st, c, template_name))

\* template_data.get(key, default)
Get(d, k, default) == IF Has(d, k) THEN d[k] ELSE default

\* render, lines 481-486: context['_template'] = {...}
ContextWith(context, template_name, d) ==
    IF d.err # NoErr THEN context
    ELSE [k \in DOMAIN context \cup {"_template"} |->
            IF k = "_template"
            THEN [name |-> template_name,
                  version |-> Get(d.val, "version", "1.0.0"),
                  agent |-> Get(d.val, "agent", "general-purpose"),
                  language |-> Get(d.val, "language", "en")]
            ELSE context[k]]

\* render, lines 477-480: an exception of get_template leaves the context
ContextAfter(st, template_name, context, t) ==
    IF t.err # NoErr THEN context
    ELSE ContextWith(context, template_name,
                     ResolveTemplate(st, t.cache, template_name, 1))

\* the caller's context dict after render(template_name, context)
RenderContext(st, c, template_name, context) ==
    ContextAfter(st, template_name, context,
                 GetTemplate(st, c, template_name))

(***************************************************************************)
(* PromptGenerator                                                         *)
(***************************************************************************)
ErrorTypes == {"a", "b", "general", "unknown"}

\* _find_best_template: none of the advanced / framework template names
\* (<type>_advanced, react_typescript, docker_k8s, ...) is a file of Stems,
\* so the candidate list is the error type itself when it is a template
FindBestTemplate(tpls, error_type) ==
    IF error_type \in DOMAIN tpls THEN error_type ELSE "general"

\* generate, the except branch: the fallback render of 'general'
Fallback(st, first) ==
    IF first.err = NoErr THEN first
    ELSE Render(st, first.cache, "general")

\* generate (advanced mode)
Generate(st, c, error_type) ==
    Fallback(st, Render(st, c, FindBestTemplate(st.templates, error_type)))

(***************************************************************************)
(* Template system: state machine                                          *)
(***************************************************************************)
\* the system as a call finds it; `now` is the clock the cache reads
Store == [templates |-> templates, template_versions |-> template_versions,
          dependencies |-> dependencies, now |-> now]

Ret(op, arg, val, err) == [op |-> op, arg |-> arg, val |-> val, err |-> err]

IdleDet == [op |-> "idle"]
IdleScan == [op |-> "idle"]

\* no detector has been constructed
NoPatterns == <<>>
\* self._cache = {}
EmptyResults == [k \in {} |-> <<>>]

RECURSIVE LoadAll(_, _, _, _)
LoadAll(st, dsk, order, i) ==
    IF i > Len(order) THEN st
    ELSE LoadAll(LoadTemplate(st, dsk, order[i]), dsk, order, i + 1)

\* the orders in which rglob('*.yaml') may list the files of a directory
Orders(S) == { o \in [1..Cardinality(S) -> S] : SeqRange(o) = S }

\* the file system: a template file is written (created or modified)
WriteFile(stem, content) ==
    /\ edits < MaxEdits
    /\ IF stem \in DOMAIN disk THEN disk[stem] # content ELSE TRUE
    /\ disk' = [n \in DOMAIN disk \cup {stem} |->
                    IF n = stem THEN content ELSE disk[n]]
    /\ edits' = edits + 1
    /\ UNCHANGED <<templates, template_versions, dependencies, cache,
                   lastReload, ret, now, user_disk, detVars, scan, inflight>>

\* the store after reload_all_templates has loaded the files in this order
ReloadAllStore(dsk, versions, order) ==
    LET cleared == [templates |-> [n \in {} |-> None],
                    template_versions |-> versions,
                    dependencies |-> NoDeps]
        loaded == LoadAll(cleared, dsk, order, 1)
    IN  [loaded EXCEPT
            !.dependencies = ResolveDependencies(loaded.dependencies, order, 1)]

\* reload_all_templates
ReloadAllTemplates(order) ==
    LET loaded == ReloadAllStore(disk, template_versions, order)
    IN  /\ templates' = loaded.templates
        /\ template_versions' = loaded.template_versions
        /\ dependencies' = loaded.dependencies
        /\ cache' = EmptyCache
        /\ lastReload' = NoName
        /\ ret' = Ret("reload_all_templates", NoName, None, NoErr)
        /\ UNCHANGED <<disk, edits, now, user_disk, detVars, scan, inflight>>

RECURSIVE InvalidateAll(_, _)
InvalidateAll(c, names) ==
    IF names = {} THEN c
    ELSE LET n == CHOOSE x \in names : TRUE
         IN InvalidateAll(CacheInvalidate(c, PlainKey(n)), names \ {n})

\* reload_template, on whichever thread calls it
ReloadTemplateOn(stem) ==
    /\ stem \in DOMAIN disk
    /\ LET c1 == CacheInvalidate(cache, PlainKey(stem))
           loaded == LoadTemplate(Store, disk, stem)
           dependents == GetDependents(loaded.dependencies, stem, 1)
       IN  /\ templates' = loaded.templates
           /\ template_versions' = loaded.template_versions
           /\ dependencies' = loaded.dependencies
           /\ cache' = IF dependents.err # NoErr THEN c1
                       ELSE InvalidateAll(c1,
                                dependents.val \cap DOMAIN loaded.templates)
           /\ ret' = Ret("reload_template", stem, None, dependents.err)
    /\ lastReload' = stem
    /\ UNCHANGED <<disk, edits, now, user_disk, detVars, scan>>

\* reload_template (TemplateFileWatcher.on_modified / on_created)
ReloadTemplate(stem) == ReloadTemplateOn(stem) /\ UNCHANGED inflight

\* a caller resolves a template
ResolveCall(name) ==
    LET r == ResolveTemplate(Store, cache, name, 1)
    IN  /\ cache' = r.cache
        /\ ret' = Ret("_resolve_template", name, r.val, r.err)
        /\ UNCHANGED <<disk, templates, template_versions, dependencies,
                       edits, lastReload, now, user_disk, detVars, scan, inflight>>

\* a caller asks for the compiled template
GetTemplateCall(name) ==
    LET r == GetTemplate(Store, cache, name)
    IN  /\ cache' = r.cache
        /\ ret' = Ret("get_template", name, r.val, r.err)
        /\ UNCHANGED <<disk, templates, template_versions, dependencies,
                       edits, lastReload, now, user_disk, detVars, scan, inflight>>

\* the context dict a caller passes to render
CallerContext == [error_text |-> "e"]

\* a caller renders a template; the outcome includes the caller's context
\* dict as the call leaves it
RenderCall(name) ==
    LET r == Render(Store, cache, name)
    IN  /\ cache' = r.cache
        /\ ret' = [op |-> "render", arg |-> name, val |-> r.val,
                   err |-> r.err,
                   context |-> RenderContext(Store, cache, name,
                                             CallerContext)]
        /\ UNCHANGED <<disk, templates, template_versions, dependencies,
                       edits, lastReload, now, user_disk, detVars, scan, inflight>>

\* PromptGenerator.generate
GenerateCall(error_type) ==
    LET r == Generate(Store, cache, error_type)
    IN  /\ cache' = r.cache
        /\ ret' = Ret("generate", error_type, r.val, r.err)
        /\ UNCHANGED <<disk, templates, template_versions, dependencies,
                       edits, lastReload, now, user_disk, detVars, scan, inflight>>

\* template directories found at start-up
EmptyDir == [n \in {} |-> None]
ChainDir == [a |-> [extends |-> "b"],
             b |-> [includes |-> <<"general">>, template |-> <<Text("v1")>>],
             general |-> [template |-> <<Text("v1")>>]]
CycleDir == [a |-> [extends |-> "b"],
             b |-> [extends |-> "a", template |-> <<Text("v1")>>]]
InitialDisks == {EmptyDir, ChainDir, CycleDir}

\* AdvancedTemplateSystem.__init__: reload_all_templates over the directory
Init ==
    /\ disk \in InitialDisks
    /\ \E order \in Orders(DOMAIN disk) :
         LET loaded == ReloadAllStore(disk, [n \in {} |-> None], order)
         IN /\ templates = loaded.templates
            /\ template_versions = loaded.template_versions
            /\ dependencies = loaded.dependencies
    /\ cache = EmptyCache
    /\ edits = 0
    /\ lastReload = NoName
    /\ ret = Ret("__init__", NoName, None, NoErr)
    /\ det = IdleDet
    /\ scan = IdleScan
    /\ now = 0
    /\ user_disk = EmptyDir
    /\ self_patterns = NoPatterns
    /\ _cache = EmptyResults
    /\ inflight = NoCalls

Next ==
    \/ \E stem \in Stems, content \in Contents : WriteFile(stem, content)
    \/ \E order \in Orders(DOMAIN disk) : ReloadAllTemplates(order)
    \/ \E stem \in Stems : ReloadTemplate(stem)
    \/ \E name \in Stems : ResolveCall(name)
    \/ \E name \in Stems : GetTemplateCall(name)
    \/ \E name \in Stems : RenderCall(name)
    \/ \E error_type \in ErrorTypes : GenerateCall(error_type)

Spec == Init /\ [][Next]_vars

TypeOK == edits \in 0..MaxEdits

(***************************************************************************)
(* Claims about the template system                                        *)
(***************************************************************************)
\* templates that extend or include `base`, directly or transitively,
\* according to the loaded template data
RECURSIVE DependsOn(_, _, _, _)
DependsOn(tpls, name, base, seen) ==
    /\ name \in DOMAIN tpls
    /\ name \notin seen
    /\ \/ base \in DeclaredDeps(tpls[name])
       \/ \E d \in DeclaredDeps(tpls[name]) :
            DependsOn(tpls, d, base, seen \cup {name})

Descendants(tpls, base) == { d \in DOMAIN tpls : DependsOn(tpls, d, base, {}) }

\* C1: after reload_template of a template B, every template D that extends
\* or includes B (directly or transitively) resolves and compiles to what a
\* computation from the current template data gives: no cache entry built
\* from B's old content is returned.
C1_ReloadInvalidatesDescendants ==
    lastReload # NoName =>
        \A d \in Descendants(templates, lastReload) :
            /\ ResolveTemplate(Store, cache, d, 1).val
                 = ResolveTemplate(Store, EmptyCache, d, 1).val
            /\ GetTemplate(Store, cache, d).val
                 = GetTemplate(Store, EmptyCache, d).val

\* templates a and b are loaded and extend each other
MutualExtends ==
    /\ "a" \in DOMAIN templates /\ "b" \in DOMAIN templates
    /\ Has(templates["a"], "extends") /\ templates["a"].extends = "b"
    /\ Has(templates["b"], "extends") /\ templates["b"].extends = "a"

\* C2: with a extends b and b extends a loaded, _resolve_template("a") and
\* get_template("a") terminate and return a resolved template instead of
\* recursing without bound.
C2_CycleResolutionTerminates ==
    (/\ MutualExtends
     /\ ret.op \in {"_resolve_template", "get_template"}
     /\ ret.arg = "a")
    => (ret.err = NoErr /\ Truthy(ret.val))

\* C3: after any sequence of reload_all_templates and reload_template calls
\* the graph in `dependencies` is acyclic, so _get_dependents terminates for
\* every template name.
C3_DependenciesAcyclic ==
    \A n \in Stems :
        /\ ~HasCircularDependency(dependencies, n, {})
        /\ GetDependents(dependencies, n, 1).err = NoErr

\* C7: PromptGenerator.generate always returns a rendered prompt and never
\* raises.
C7_GenerateNeverRaises ==
    ret.op = "generate" => (ret.err = NoErr /\ ret.val # None)

\* the body a template declares, or obtains from the parents it extends
RECURSIVE DeclaredBody(_, _, _)
DeclaredBody(tpls, name, fuel) ==
    IF fuel = 0 \/ name \notin DOMAIN tpls THEN <<>>
    ELSE IF Has(tpls[name], "template") THEN tpls[name].template
    ELSE IF Has(tpls[name], "extends")
         THEN DeclaredBody(tpls, tpls[name].extends, fuel - 1)
         ELSE <<>>

\* the includes list a template declares, or obtains from its parents
RECURSIVE DeclaredIncludes(_, _, _)
DeclaredIncludes(tpls, name, fuel) ==
    IF fuel = 0 \/ name \notin DOMAIN tpls THEN <<>>
    ELSE IF Has(tpls[name], "includes") THEN tpls[name].includes
    ELSE IF Has(tpls[name], "extends")
         THEN DeclaredIncludes(tpls, tpls[name].extends, fuel - 1)
         ELSE <<>>

\* a loaded template with a body and neither parent nor includes
IsLeaf(tpls, name) ==
    /\ name \in DOMAIN tpls
    /\ DOMAIN tpls[name] = {"template"}

\* the bodies of the included (leaf) templates, in declared order
RECURSIVE LeafBodies(_, _, _)
LeafBodies(tpls, names, i) ==
    IF i > Len(names) THEN <<>>
    ELSE tpls[names[i]].template \o LeafBodies(tpls, names, i + 1)

\* a child with a body of its own under a parent with a body
IsScaffolded(tpls, name) ==
    /\ Has(tpls[name], "template")
    /\ Has(tpls[name], "extends")
    /\ tpls[name].extends \in DOMAIN tpls

\* C16: for every template that has includes, the resolved body is the
\* bodies of the included templates, each exactly once and in declared
\* order, followed by the template's own body; also when the body or the
\* includes list comes from a parent through extends.
C16_IncludesOnceInOrder ==
    (/\ ret.op = "_resolve_template"
     /\ ret.err = NoErr
     /\ ret.arg \in DOMAIN templates
     /\ ret.val = ResolveTemplate(Store, EmptyCache, ret.arg, 1).val
     /\ ~IsScaffolded(templates, ret.arg)
     /\ DeclaredIncludes(templates, ret.arg, MaxDepth) # <<>>
     /\ \A i \in 1..Len(DeclaredIncludes(templates, ret.arg, MaxDepth)) :
           IsLeaf(templates, DeclaredIncludes(templates, ret.arg, MaxDepth)[i]))
    => (/\ Has(ret.val, "template")
        /\ ret.val.template =
              LeafBodies(templates,
                         DeclaredIncludes(templates, ret.arg, MaxDepth), 1)
              \o DeclaredBody(templates, ret.arg, MaxDepth))

\* C17: for a child that extends a loaded parent P, both having a body, the
\* resolved body is P's body as scaffold with the child's body injected, any
\* parent template the merged body refers to is one the engine can resolve,
\* and compiling and rendering the child succeeds.
C17_ExtendsComposesAndRenders ==
    (/\ ret.op \in {"_resolve_template", "get_template", "render"}
     /\ ret.arg \in DOMAIN templates
     /\ IsScaffolded(templates, ret.arg)
     /\ IsLeaf(templates, templates[ret.arg].extends))
    => (/\ ret.err = NoErr
        /\ ret.op = "_resolve_template" =>
              /\ Has(ret.val, "template")
              /\ ~HasExtendsTag(ret.val.template))

\* C18: render(template_name, context) leaves the caller's context map and
\* the stored template data unchanged.
C18_RenderIsPure ==
    [][ (ret'.op = "render" /\ ret' # ret)
        => (/\ ret'.context = CallerContext
            /\ templates' = templates
            /\ template_versions' = template_versions
            /\ dependencies' = dependencies) ]_vars

\* C27: after reload_template(path) the dependency set recorded for that
\* template equals exactly the extends and includes names declared in the
\* file's current content.
C27_DependenciesFollowFile ==
    [][ \A stem \in Stems :
          ReloadTemplate(stem) =>
             dependencies'[stem] = DeclaredDeps(disk[stem]) ]_vars

(***************************************************************************)
(* TemplateCache on its own: state machine                                 *)
(***************************************************************************)
\* the clock stops here
MaxTime == 7200

\* the clock advances between two calls
TickSteps == {Ttl - 1, Ttl}

Tick(d) ==
    /\ now + d <= MaxTime
    /\ now' = now + d
    /\ UNCHANGED <<disk, templates, template_versions, dependencies, cache,
                   edits, lastReload, ret, user_disk, detVars, scan, inflight>>

CacheKeys == {ResolvedKey("a"), CompiledKey("a")}
CacheValues == { [template |-> <<Text(v)>>] : v \in {"v1", "v2"} }

\* cache.set(key, value, version of the value)
CacheSetCall(key, value) ==
    /\ cache' = CacheSet(cache, key, value, ContentHash(value), now)
    /\ ret' = Ret("set", key, None, NoErr)
    /\ UNCHANGED <<disk, templates, template_versions, dependencies, edits,
                   lastReload, now, user_disk, detVars, scan, inflight>>

\* cache.get(key, version); the call is recorded with the clock reading
CacheGetCall(key, version) ==
    /\ ret' = Ret("get", <<key, version, now>>,
                  CacheGet(cache, key, version, now), NoErr)
    /\ UNCHANGED <<disk, templates, template_versions, dependencies, cache,
                   edits, lastReload, now, user_disk, detVars, scan, inflight>>

\* cache.invalidate(key)
CacheInvalidateCall(key) ==
    /\ cache' = CacheInvalidate(cache, key)
    /\ ret' = Ret("invalidate", key, None, NoErr)
    /\ UNCHANGED <<disk, templates, template_versions, dependencies, edits,
                   lastReload, now, user_disk, detVars, scan, inflight>>

\* TemplateCache.__init__
InitCache ==
    /\ disk = EmptyDir
    /\ templates = EmptyDir
    /\ template_versions = EmptyDir
    /\ dependencies = NoDeps
    /\ cache = EmptyCache
    /\ edits = 0
    /\ lastReload = NoName
    /\ ret = Ret("__init__", NoName, None, NoErr)
    /\ det = IdleDet
    /\ scan = IdleScan
    /\ now = 0
    /\ user_disk = EmptyDir
    /\ self_patterns = NoPatterns
    /\ _cache = EmptyResults
    /\ inflight = NoCalls

NextCache ==
    \/ \E d \in TickSteps : Tick(d)
    \/ \E key \in CacheKeys, value \in CacheValues : CacheSetCall(key, value)
    \/ \E key \in CacheKeys, value \in CacheValues :
            CacheGetCall(key, ContentHash(value))
    \/ \E key \in CacheKeys : CacheInvalidateCall(key)

SpecCache == InitCache /\ [][NextCache]_vars

\* C14: TemplateCache.get(key, version) returns the stored value only while
\* the entry's version equals the requested version and less than ttl seconds
\* have passed since it was set; after the TTL it returns nothing, even if
\* the entry was never invalidated.
C14_TtlAndVersion ==
    (ret.op = "get" /\ ret.arg[3] = now) =>
        LET key == ret.arg[1]
            version == ret.arg[2]
            live == /\ key \in DOMAIN cache
                    /\ cache[key].version = version
                    /\ now - cache[key].timestamp < Ttl
        IN ret.val = IF live THEN cache[key].data ELSE None

\* an entry of the requested version, never invalidated, has expired
C14_Witness ==
    /\ ret.op = "get"
    /\ ret.arg[3] = now
    /\ ret.arg[1] \in DOMAIN cache
    /\ cache[ret.arg[1]].version = ret.arg[2]
    /\ now - cache[ret.arg[1]].timestamp >= Ttl
    /\ ret.val = None

(***************************************************************************)
(* Template system with the clock: state machine                           *)
(***************************************************************************)
\* the files an editor rewrites while the system runs
EditedStems == {"b"}
EditedContents == { [includes |-> <<"general">>, template |-> <<Text("v2")>>] }

InitTtl ==
    /\ disk = ChainDir
    /\ \E order \in Orders(DOMAIN disk) :
         LET loaded == ReloadAllStore(disk, [n \in {} |-> None], order)
         IN /\ templates = loaded.templates
            /\ template_versions = loaded.template_versions
            /\ dependencies = loaded.dependencies
    /\ cache = EmptyCache
    /\ edits = 0
    /\ lastReload = NoName
    /\ ret = Ret("__init__", NoName, None, NoErr)
    /\ det = IdleDet
    /\ scan = IdleScan
    /\ now = 0
    /\ user_disk = EmptyDir
    /\ self_patterns = NoPatterns
    /\ _cache = EmptyResults
    /\ inflight = NoCalls

NextTtl ==
    \/ \E d \in TickSteps : Tick(d)
    \/ \E stem \in EditedStems, content \in EditedContents :
            WriteFile(stem, content)
    \/ \E stem \in Stems : ReloadTemplate(stem)
    \/ \E name \in Stems : ResolveCall(name)

SpecTtl == InitTtl /\ [][NextTtl]_vars

\* C15: repeated _resolve_template(name) calls with no reload in between
\* return identical resolved bodies, whether served from the cache or
\* recomputed after a TTL expiry, and resolving never alters the stored
\* template data.
C15_ResolveDeterministic ==
    [][ (/\ ret.op = "_resolve_template"
         /\ ret'.op = "_resolve_template"
         /\ ret'.arg = ret.arg)
        => (ret'.val = ret.val /\ templates' = templates) ]_vars

(***************************************************************************)
(* Built-in and user template directories: state machine                   *)
(***************************************************************************)
\* a bug: a user file is stored under its bare stem
UserName_Plain(stem) == stem

\* template_name = f"user.{template_name}"
UserName(stem) == "user." \o stem

\* _load_template of a file under ~/.ccdebug ('.ccdebug' in str(path))
LoadUserTemplate(st, udsk, stem) ==
    IF stem \notin DOMAIN udsk THEN st
    ELSE [ templates |->
                [n \in DOMAIN st.templates \cup {UserName(stem)} |->
                    IF n = UserName(stem) THEN udsk[stem]
                    ELSE st.templates[n]],
           template_versions |->
                [n \in DOMAIN st.template_versions \cup {UserName(stem)} |->
                    IF n = UserName(stem) THEN ContentHash(udsk[stem])
                    ELSE st.template_versions[n]],
           dependencies |->
                [n \in DOMAIN st.dependencies \cup {UserName(stem)} |->
                    (IF n \in DOMAIN st.dependencies
                     THEN st.dependencies[n] ELSE {})
                    \cup (IF n = UserName(stem)
                          THEN DeclaredDeps(udsk[stem]) ELSE {})] ]

RECURSIVE LoadAllUser(_, _, _, _)
LoadAllUser(st, udsk, order, i) ==
    IF i > Len(order) THEN st
    ELSE LoadAllUser(LoadUserTemplate(st, udsk, order[i]), udsk, order, i + 1)

\* the keys of self.templates, in insertion order
UserNames(order) == [i \in 1..Len(order) |-> UserName(order[i])]

\* reload_all_templates over both directories; template_dirs lists the user
\* directory before or after the built-in one
ReloadAllDirs(dsk, udsk, order, uorder, user_first) ==
    LET cleared == [templates |-> [n \in {} |-> None],
                    template_versions |-> [n \in {} |-> None],
                    dependencies |-> NoDeps]
        loaded == IF user_first
                  THEN LoadAll(LoadAllUser(cleared, udsk, uorder, 1),
                               dsk, order, 1)
                  ELSE LoadAllUser(LoadAll(cleared, dsk, order, 1),
                                   udsk, uorder, 1)
        names == IF user_first THEN UserNames(uorder) \o order
                 ELSE order \o UserNames(uorder)
    IN  [loaded EXCEPT
            !.dependencies = ResolveDependencies(loaded.dependencies, names, 1)]

\* the path of a file of the user directory
UserPath(stem) == ".ccdebug/templates/" \o stem

\* a file of the user directory is written
WriteUserFile(stem, content) ==
    /\ edits < MaxEdits
    /\ IF stem \in DOMAIN user_disk THEN user_disk[stem] # content ELSE TRUE
    /\ user_disk' = [n \in DOMAIN user_disk \cup {stem} |->
                        IF n = stem THEN content ELSE user_disk[n]]
    /\ edits' = edits + 1
    /\ UNCHANGED <<disk, templates, template_versions, dependencies, cache,
                   lastReload, ret, now, detVars, scan, inflight>>

\* reload_template of a file of the user directory
ReloadUserTemplate(stem) ==
    /\ stem \in DOMAIN user_disk
    /\ LET c1 == CacheInvalidate(cache, PlainKey(stem))
           loaded == LoadUserTemplate(Store, user_disk, stem)
           dependents == GetDependents(loaded.dependencies, stem, 1)
       IN  /\ templates' = loaded.templates
           /\ template_versions' = loaded.template_versions
           /\ dependencies' = loaded.dependencies
           /\ cache' = IF dependents.err # NoErr THEN c1
                       ELSE InvalidateAll(c1,
                                dependents.val \cap DOMAIN loaded.templates)
           /\ ret' = Ret("reload_template", UserPath(stem), None,
                         dependents.err)
    /\ lastReload' = stem
    /\ UNCHANGED <<disk, edits, now, user_disk, detVars, scan, inflight>>

\* TemplateManager._find_template_file: the template directories are
\* searched in order, the built-in one before the user one
FindTemplateFile(dsk, udsk, template_name) ==
    IF template_name \in DOMAIN dsk THEN "builtin"
    ELSE IF template_name \in DOMAIN udsk THEN ".ccdebug"
    ELSE "-"

\* dict.pop(key, None)
Pop(d, key) == [n \in DOMAIN d \ {key} |-> d[n]]

\* TemplateManager.delete_template; confirm is the answer to Confirm.ask
DeleteTemplate(template_name, confirm) ==
    /\ IF /\ FindTemplateFile(disk, user_disk, template_name) = ".ccdebug"
          /\ confirm
       THEN /\ user_disk' = Pop(user_disk, template_name)
            /\ templates' = Pop(templates, template_name)
            /\ ret' = Ret("delete_template", template_name,
                          [deleted |-> TRUE], NoErr)
       ELSE /\ UNCHANGED <<user_disk, templates>>
            /\ ret' = Ret("delete_template", template_name, None, NoErr)
    /\ UNCHANGED <<disk, template_versions, dependencies, cache, edits,
                   lastReload, now, detVars, scan, inflight>>

BuiltinDirs == {
    [general |-> [template |-> <<Text("v1")>>]],
    [a |-> [includes |-> <<"general">>, template |-> <<Text("v1")>>],
     general |-> [template |-> <<Text("v1")>>]] }

UserDirs == {
    [a |-> [template |-> <<Text("v2")>>]],
    [a |-> [extends |-> "general"], b |-> [template |-> <<Text("v2")>>]] }

UserStems == {"a", "b"}
UserContents == { [template |-> <<Text("v2")>>],
                  [extends |-> "general", template |-> <<Text("v1")>>] }

InitUser ==
    /\ disk \in BuiltinDirs
    /\ user_disk \in UserDirs
    /\ \E order \in Orders(DOMAIN disk), uorder \in Orders(DOMAIN user_disk),
          user_first \in BOOLEAN :
         LET loaded == ReloadAllDirs(disk, user_disk, order, uorder, user_first)
         IN /\ templates = loaded.templates
            /\ template_versions = loaded.template_versions
            /\ dependencies = loaded.dependencies
    /\ cache = EmptyCache
    /\ edits = 0
    /\ lastReload = NoName
    /\ ret = Ret("__init__", NoName, None, NoErr)
    /\ det = IdleDet
    /\ scan = IdleScan
    /\ now = 0
    /\ self_patterns = NoPatterns
    /\ _cache = EmptyResults
    /\ inflight = NoCalls

\* the names passed to the template manager and to render
ManagedNames == {"a", UserName("a")}

NextUser ==
    \/ \E stem \in UserStems, content \in UserContents :
            WriteUserFile(stem, content)
    \/ \E stem \in UserStems : ReloadUserTemplate(stem)
    \/ \E stem \in Stems : ReloadTemplate(stem)
    \/ \E name \in Stems \cup { UserName(stem) : stem \in UserStems } :
            GetTemplateCall(name)
    \/ \E name \in ManagedNames : RenderCall(name)
    \/ \E name \in ManagedNames, confirm \in BOOLEAN :
            DeleteTemplate(name, confirm)

SpecUser == InitUser /\ [][NextUser]_vars

\* the data, version and dependency set stored for a built-in template
BuiltinEntry(tpls, versions, deps, n) ==
    <<tpls[n], versions[n], deps[n]>>

\* C19: loading or reloading a file of the user directory stores it under
\* the key user.<name> and leaves the stored data, version and dependency
\* set of a built-in template <name> unchanged, in whichever order the two
\* files are loaded.
C19_UserNamespace ==
    /\ \A n \in DOMAIN disk :
          /\ n \in DOMAIN templates
          /\ BuiltinEntry(templates, template_versions, dependencies, n)
                = <<disk[n], ContentHash(disk[n]), DeclaredDeps(disk[n])>>
    /\ \A stem \in DOMAIN user_disk :
          /\ UserName(stem) \in DOMAIN templates
          /\ templates[UserName(stem)] = user_disk[stem]
    /\ [][ \A stem \in UserStems :
             ReloadUserTemplate(stem) =>
                /\ UserName(stem) \in DOMAIN templates'
                /\ templates'[UserName(stem)] = user_disk[stem]
                /\ template_versions'[UserName(stem)]
                      = ContentHash(user_disk[stem])
                /\ \A n \in Stems \cap DOMAIN templates :
                      BuiltinEntry(templates', template_versions',
                                   dependencies', n)
                        = BuiltinEntry(templates, template_versions,
                                       dependencies, n) ]_vars

\* a user file was reloaded next to a built-in template of the same name
\* with different content
C19_Witness ==
    /\ ret.op = "reload_template"
    /\ ret.arg = UserPath("a")
    /\ "a" \in DOMAIN templates
    /\ UserName("a") \in DOMAIN templates
    /\ templates["a"] # templates[UserName("a")]

\* C20: when a caller asks for template <name>, resolution uses the template
\* stored under <name> if there is one and otherwise the one stored under
\* user.<name>; TemplateNotFound is raised only when neither key exists.
C20_UserFallback ==
    (ret.op = "get_template" /\ ret.arg \in Stems) =>
        /\ ret.err = "TemplateNotFound" =>
              /\ ret.arg \notin DOMAIN templates
              /\ UserName(ret.arg) \notin DOMAIN templates
        /\ (/\ ret.arg \notin DOMAIN templates
            /\ UserName(ret.arg) \in DOMAIN templates
            /\ ret.err = NoErr) =>
              ret.val = GetTemplate(Store, EmptyCache, UserName(ret.arg)).val

RaceStems == {"a", "b"}

\* versions of a template file: metadata and body change together
RaceContents == { [version |-> "1", template |-> <<Text("v1")>>],
                  [version |-> "2", template |-> <<Text("v2")>>] }

\* render, line 477: get_template has returned on the caller thread
RenderGet(name) ==
    /\ "render" \notin DOMAIN inflight
    /\ LET t == GetTemplate(Store, cache, name)
       IN  /\ cache' = t.cache
           /\ inflight' = [th \in DOMAIN inflight \cup {"render"} |->
                            IF th = "render"
                            THEN [template_name |-> name,
                                  template |-> [val |-> t.val, err |-> t.err]]
                            ELSE inflight[th]]
    /\ UNCHANGED <<disk, templates, template_versions, dependencies, edits,
                   lastReload, ret, now, user_disk, detVars, scan>>

\* render, lines 480-488: the metadata is read and the template rendered
RenderFinish ==
    /\ "render" \in DOMAIN inflight
    /\ LET name == inflight["render"].template_name
           t == inflight["render"].template
           d == IF t.err # NoErr THEN Result(None, cache, t.err)
                ELSE ResolveTemplate(Store, cache, name, 1)
           r == IF t.err # NoErr THEN d
                ELSE RenderWith(name, t.val.compiled, d)
       IN  /\ cache' = d.cache
           /\ ret' = [op |-> "render", arg |-> name, val |-> r.val,
                      err |-> r.err,
                      context |-> IF t.err # NoErr THEN CallerContext
                                  ELSE ContextWith(CallerContext, name, d)]
    /\ inflight' = [th \in DOMAIN inflight \ {"render"} |-> inflight[th]]
    /\ UNCHANGED <<disk, templates, template_versions, dependencies, edits,
                   lastReload, now, user_disk, detVars, scan>>

InitRace ==
    /\ disk \in [RaceStems -> RaceContents]
    /\ \E order \in Orders(DOMAIN disk) :
         LET loaded == ReloadAllStore(disk, [n \in {} |-> None], order)
         IN /\ templates = loaded.templates
            /\ template_versions = loaded.template_versions
            /\ dependencies = loaded.dependencies
    /\ cache = EmptyCache
    /\ edits = 0
    /\ lastReload = NoName
    /\ ret = Ret("__init__", NoName, None, NoErr)
    /\ det = IdleDet
    /\ scan = IdleScan
    /\ now = 0
    /\ user_disk = EmptyDir
    /\ self_patterns = NoPatterns
    /\ _cache = EmptyResults
    /\ inflight = NoCalls

NextRace ==
    \/ \E stem \in RaceStems, content \in RaceContents :
            WriteFile(stem, content)
    \/ \E stem \in RaceStems : ReloadTemplate(stem)
    \/ \E name \in RaceStems : RenderGet(name)
    \/ RenderFinish

SpecRace == InitRace /\ [][NextRace]_vars

\* C21: a render that runs while reload_template runs on the watcher thread
\* never combines the compiled body of one version of a template with the
\* _template metadata of another version of it.
C21_NoTornRender ==
    (ret.op = "render" /\ ret.err = NoErr) =>
        \E content \in RaceContents :
            /\ ret.context["_template"].version = content.version
            /\ ret.val.text = content.template

(***************************************************************************)
(* TemplateFileWatcher: the observer thread and its event queue            *)
(***************************************************************************)
\* the events watchdog delivers for one save of a file
SaveEvents(created) ==
    IF created THEN {<<"created", "modified">>, <<"created">>}
    ELSE {<<"modified">>, <<"modified", "modified">>}

\* the observer thread: the queue of events not yet handled, each
\* <<event_type, stem>>, and (history) the number of reload_template calls
\* made for the events of the save being delivered
Watcher(queue, reloads) == [queue |-> queue, reloads |-> reloads]

IdleWatcher == [observer |-> Watcher(<<>>, 0)]

\* a template file is saved and the observer queues the events of the save
SaveFile(stem, content, events) ==
    /\ edits < MaxEdits
    /\ inflight["observer"].queue = <<>>
    /\ IF stem \in DOMAIN disk THEN disk[stem] # content ELSE TRUE
    /\ events \in SaveEvents(stem \notin DOMAIN disk)
    /\ disk' = [n \in DOMAIN disk \cup {stem} |->
                    IF n = stem THEN content ELSE disk[n]]
    /\ edits' = edits + 1
    /\ inflight' = [observer |->
                      Watcher([i \in 1..Len(events) |-> <<events[i], stem>>], 0)]
    /\ UNCHANGED <<templates, template_versions, dependencies, cache,
                   lastReload, ret, now, user_disk, detVars, scan>>

\* TemplateFileWatcher.on_modified / on_created for the next queued event
\* (a file event whose path ends with .yaml)
OnEvent ==
    /\ inflight["observer"].queue # <<>>
    /\ ReloadTemplateOn(inflight["observer"].queue[1][2])
    /\ inflight' = [observer |->
                      Watcher(Tail(inflight["observer"].queue),
                              inflight["observer"].reloads + 1)]

WatchedStems == {"a", "b"}

InitWatcher ==
    /\ \E S \in {{"a"}, {"a", "b"}} : disk \in [S -> RaceContents]
    /\ \E order \in Orders(DOMAIN disk) :
         LET loaded == ReloadAllStore(disk, [n \in {} |-> None], order)
         IN /\ templates = loaded.templates
            /\ template_versions = loaded.template_versions
            /\ dependencies = loaded.dependencies
    /\ cache = EmptyCache
    /\ edits = 0
    /\ lastReload = NoName
    /\ ret = Ret("__init__", NoName, None, NoErr)
    /\ det = IdleDet
    /\ scan = IdleScan
    /\ now = 0
    /\ user_disk = EmptyDir
    /\ self_patterns = NoPatterns
    /\ _cache = EmptyResults
    /\ inflight = IdleWatcher

NextWatcher ==
    \/ \E stem \in WatchedStems, content \in RaceContents,
          events \in SaveEvents(TRUE) \cup SaveEvents(FALSE) :
            SaveFile(stem, content, events)
    \/ OnEvent
    \/ \E name \in WatchedStems : GetTemplateCall(name)

SpecWatcher == InitWatcher /\ [][NextWatcher]_vars

\* C22: when the watcher delivers several events for one save of a template
\* file, reload_template runs at most once for that file.
C22_Debounced == inflight["observer"].reloads <= 1

(***************************************************************************)
(* AdvancedErrorDetector                                                   *)
(*                                                                         *)
(* An input text is a sequence of log fragments:                           *)
(*   "TS"        error TS2322: <message>\n                                 *)
(*   "TypeError" TypeError: <message>\n                                    *)
(*   "ECONN"     ECONNREFUSED\n                                            *)
(*   "heap"      JavaScript heap                                           *)
(*   "oom"       out of memory\n                                           *)
(*   "at"        <indent>at f (x.js:1:2)\n                                 *)
(*   "ok"        a line no catalog pattern matches                         *)
(* A catalog pattern is the fragment sequence its regular expression       *)
(* matches.  Weights are in tenths, scores in thousandths, confidences     *)
(* exact fractions <<numerator, denominator>>.                             *)
(***************************************************************************)
\* longest input text explored
MaxTextLen == 3

Fragments == {"TS", "TypeError", "ECONN", "heap", "oom", "at", "ok"}

Texts == UNION { [1..n -> Fragments] : n \in 0..MaxTextLen }

\* _initialize_patterns, in declaration order; ngroups is the number of
\* capture groups of the regular expression
Patterns == <<
    [category |-> "typescript", weight |-> 20, frags |-> <<"TS">>,
     extract_groups |-> <<"error_code", "message">>, ngroups |-> 2],
    [category |-> "javascript", weight |-> 20, frags |-> <<"TypeError">>,
     extract_groups |-> <<"error_type", "message">>, ngroups |-> 2],
    [category |-> "python", weight |-> 18, frags |-> <<"TypeError">>,
     extract_groups |-> <<"error_type", "message">>, ngroups |-> 2],
    [category |-> "memory", weight |-> 25, frags |-> <<"heap", "oom">>,
     extract_groups |-> <<>>, ngroups |-> 0],
    [category |-> "network", weight |-> 20, frags |-> <<"ECONN">>,
     extract_groups |-> <<"error_code">>, ngroups |-> 1] >>

Categories == { Patterns[i].category : i \in 1..Len(Patterns) }

MatchesAt(frags, text, i) ==
    /\ i + Len(frags) - 1 <= Len(text)
    /\ \A j \in 1..Len(frags) : text[i + j - 1] = frags[j]

\* start positions of the non-overlapping occurrences, left to right
RECURSIVE FindAllFrom(_, _, _)
FindAllFrom(frags, text, i) ==
    IF i + Len(frags) - 1 > Len(text) THEN <<>>
    ELSE IF MatchesAt(frags, text, i)
         THEN <<i>> \o FindAllFrom(frags, text, i + Len(frags))
         ELSE FindAllFrom(frags, text, i + 1)

\* ErrorPattern.findall: tuples for several capture groups, strings for one
FindAll(pat, text) ==
    LET pos == FindAllFrom(pat.frags, text, 1)
    IN [k \in 1..Len(pos) |->
          [kind |-> IF pat.ngroups > 1 THEN "tuple" ELSE "str",
           text |-> pat.frags]]

\* ErrorPattern.search: the leftmost occurrence as a Match object
Search(pat, text) ==
    LET pos == FindAllFrom(pat.frags, text, 1)
    IN IF pos = <<>> THEN <<>> ELSE <<[kind |-> "Match", text |-> pat.frags]>>

\* the `matches` list of one pattern in detect_multi_label
PatternMatches(pat, text) ==
    LET found == IF pat.extract_groups # <<>> THEN FindAll(pat, text) ELSE <<>>
    IN IF found = <<>> THEN Search(pat, text) ELSE found

\* exact fractions
RatLeq(p, q) == p[1] * q[2] <= q[1] * p[2]
RatLess(p, q) == p[1] * q[2] < q[1] * p[2]
RatEq(p, q) == p[1] * q[2] = q[1] * p[2]
RECURSIVE Gcd(_, _)
Gcd(a, b) == IF b = 0 THEN a ELSE Gcd(b, a % b)
RatNorm(p) == LET g == Gcd(p[1], p[2]) IN <<p[1] \div g, p[2] \div g>>
RatAdd(p, q) == RatNorm(<<p[1] * q[2] + q[1] * p[2], p[2] * q[2]>>)
RatDiv(p, n) == RatNorm(<<p[1], p[2] * n>>)

Thresholds == {<<0, 1>>, <<3, 10>>, <<1, 2>>, <<1, 1>>}

\* the default confidence_threshold = 0.3
DefaultThreshold == <<3, 10>>

\* extracted info of a category: group name -> captured values
AddInfo(info, pat, ms) ==
    LET named == { i \in 1..Len(pat.extract_groups) :
                     ms[1].kind = "tuple" /\ i <= pat.ngroups }
        keys == { pat.extract_groups[i] : i \in named }
        vals == [k \in 1..Len(ms) |-> ms[k].text]
    IN [g \in DOMAIN info \cup keys |->
          (IF g \in DOMAIN info THEN info[g] ELSE <<>>)
          \o (IF g \in keys THEN vals ELSE <<>>)]

EmptyInfo == [g \in {} |-> <<>>]

\* a bug: the number of hits is ignored
PatternScore_WeightOnly(pat, ms) == pat.weight

\* score = pattern.weight * len(matches)
PatternScore(pat, ms) == pat.weight * Len(ms)

\* the scoring loop: cs is [order, score, matches, info] of category_scores
RECURSIVE ScorePatterns(_, _, _, _)
ScorePatterns(pats, text, i, cs) ==
    IF i > Len(pats) THEN cs
    ELSE LET pat == pats[i]
             ms == PatternMatches(pat, text)
             cat == pat.category
             known == cat \in SeqRange(cs.order)
         IN ScorePatterns(pats, text, i + 1,
              IF ms = <<>> THEN cs
              ELSE [order |-> IF known THEN cs.order ELSE Append(cs.order, cat),
                    score |-> [c \in DOMAIN cs.score \cup {cat} |->
                                 (IF c \in DOMAIN cs.score THEN cs.score[c] ELSE 0)
                                 + (IF c = cat THEN PatternScore(pat, ms) ELSE 0)],
                    matches |-> [c \in DOMAIN cs.matches \cup {cat} |->
                                 (IF c \in DOMAIN cs.matches THEN cs.matches[c] ELSE <<>>)
                                 \o (IF c = cat THEN ms ELSE <<>>)],
                    info |-> [c \in DOMAIN cs.info \cup {cat} |->
                                 IF c = cat
                                 THEN IF pat.extract_groups # <<>>
                                      THEN AddInfo(IF known THEN cs.info[c]
                                                   ELSE EmptyInfo, pat, ms)
                                      ELSE IF known THEN cs.info[c] ELSE EmptyInfo
                                 ELSE cs.info[c]]])

NoScores == [order |-> <<>>, score |-> [c \in {} |-> 0],
             matches |-> [c \in {} |-> <<>>], info |-> [c \in {} |-> EmptyInfo]]

RECURSIVE SumScores(_, _)
SumScores(score, cats) ==
    IF cats = {} THEN 0
    ELSE LET c == CHOOSE x \in cats : TRUE
         IN score[c] + SumScores(score, cats \ {c})

\* a bug: the total is the score of the category scored last
TotalScore_LastOnly(cs) ==
    IF cs.order = <<>> THEN 0 ELSE cs.score[cs.order[Len(cs.order)]]

\* sum(cat["score"] for cat in category_scores.values())
TotalScore(cs) == SumScores(cs.score, DOMAIN cs.score)

\* keyword groups of _calculate_severity found in the lower-cased fragment
\*   "oom_kw"   : out of memory|heap overflow|stack overflow      (+0.3)
\*   "error_kw" : error|exception|failure                         (+0.2 * 0.7)
\* none of the fragments holds a keyword of the other groups
FragmentKeywords(f) ==
    CASE f = "TS" -> {"error_kw"}
      [] f = "TypeError" -> {"error_kw"}
      [] f = "oom" -> {"oom_kw"}
      [] OTHER -> {}

TextKeywords(text) == UNION { FragmentKeywords(text[i]) : i \in 1..Len(text) }

\* increments in thousandths
KeywordBonus(kws) ==
    (IF "oom_kw" \in kws THEN 300 ELSE 0)
    + (IF "error_kw" \in kws THEN 140 ELSE 0)

CategoryBonus(category) ==
    IF category \in {"memory", "security"} THEN 200
    ELSE IF category \in {"build", "docker"} THEN 150
    ELSE IF category \in {"database", "network"} THEN 100
    ELSE 0

\* _calculate_severity: severity_score = confidence + increments, compared
\* with 0.8 / 0.6 / 0.4 (all scaled by 1000 * denominator)
CalculateSeverity(text, category, confidence) ==
    LET bonus == KeywordBonus(TextKeywords(text)) + CategoryBonus(category)
        score == 1000 * confidence[1] + bonus * confidence[2]
    IN IF score >= 800 * confidence[2] THEN "critical"
       ELSE IF score >= 600 * confidence[2] THEN "high"
       ELSE IF score >= 400 * confidence[2] THEN "medium"
       ELSE "low"

SeverityLevels == <<"low", "medium", "high", "critical">>

\* list.sort(key=confidence, reverse=True): stable insertion
RECURSIVE InsertByConfidence(_, _, _)
InsertByConfidence(sorted, m, i) ==
    IF i > Len(sorted) THEN Append(sorted, m)
    ELSE IF RatLess(sorted[i].confidence, m.confidence)
         THEN SubSeq(sorted, 1, i - 1) \o <<m>> \o SubSeq(sorted, i, Len(sorted))
         ELSE InsertByConfidence(sorted, m, i + 1)

RECURSIVE SortByConfidence(_, _, _)
SortByConfidence(ms, i, acc) ==
    IF i > Len(ms) THEN acc
    ELSE SortByConfidence(ms, i + 1, InsertByConfidence(acc, ms[i], 1))

\* the normalisation loop over category_scores.items()
RECURSIVE BuildResults(_, _, _, _, _, _)
BuildResults(text, cs, total_score, threshold, i, acc) ==
    IF i > Len(cs.order) THEN acc
    ELSE LET category == cs.order[i]
             confidence == <<cs.score[category], total_score>>
         IN BuildResults(text, cs, total_score, threshold, i + 1,
              IF RatLeq(threshold, confidence)
              THEN Append(acc,
                     [category |-> category,
                      confidence |-> confidence,
                      matches |-> cs.matches[category],
                      extracted_info |-> cs.info[category],
                      severity |-> CalculateSeverity(text, category, confidence)])
              ELSE acc)

\* a bug: the results are returned in scoring order, without the sort
DetectMultiLabel_Unsorted(pats, error_text, confidence_threshold) ==
    IF error_text = <<>> THEN <<>>
    ELSE IF TotalScore(ScorePatterns(pats, error_text, 1, NoScores)) > 0
    THEN BuildResults(error_text,
                      ScorePatterns(pats, error_text, 1, NoScores),
                      TotalScore(ScorePatterns(pats, error_text, 1, NoScores)),
                      confidence_threshold, 1, <<>>)
    ELSE <<>>

\* detect_multi_label, lines 403-404 and 412-471: the classification proper
DetectMultiLabel(pats, error_text, confidence_threshold) ==
    IF error_text = <<>> THEN <<>>
    ELSE LET cs == ScorePatterns(pats, error_text, 1, NoScores)
             total_score == TotalScore(cs)
             results == IF total_score > 0
                        THEN BuildResults(error_text, cs, total_score,
                                          confidence_threshold, 1, <<>>)
                        ELSE <<>>
         IN SortByConfidence(results, 1, <<>>)

\* self._cache_size = 1000
_cache_size == 1000

\* cache_key = f"{md5(error_text)}_{confidence_threshold}": a collision-free
\* digest of the text and the printed value of the threshold
CacheKey(error_text, confidence_threshold) ==
    <<error_text, RatNorm(confidence_threshold)>>

\* the result is stored only while the cache holds fewer than _cache_size
CacheResult(c, key, results) ==
    IF Cardinality(DOMAIN c) < _cache_size
    THEN [k \in DOMAIN c \cup {key} |-> IF k = key THEN results ELSE c[k]]
    ELSE c

\* detect_multi_label with its result cache: [val, cache]
DetectCached(pats, c, error_text, confidence_threshold) ==
    IF error_text = <<>> THEN [val |-> <<>>, cache |-> c]
    ELSE IF CacheKey(error_text, confidence_threshold) \in DOMAIN c
    THEN [val |-> c[CacheKey(error_text, confidence_threshold)], cache |-> c]
    ELSE [val |-> DetectMultiLabel(pats, error_text, confidence_threshold),
          cache |-> CacheResult(c,
                        CacheKey(error_text, confidence_threshold),
                        DetectMultiLabel(pats, error_text, confidence_threshold))]

\* the cache after detect_multi_label(text) was called on each of the texts
RECURSIVE CacheAll(_, _, _, _)
CacheAll(pats, c, texts, i) ==
    IF i > Len(texts) THEN c
    ELSE CacheAll(pats,
                  DetectCached(pats, c, texts[i], DefaultThreshold).cache,
                  texts, i + 1)

(***************************************************************************)
(* stream_detect                                                           *)
(***************************************************************************)
\* overlap = 1024
StreamOverlap == 1024

Min(a, b) == IF a < b THEN a ELSE b
Max(a, b) == IF a > b THEN a ELSE b

\* s[-n:]
Tail_(s, n) == SubSeq(s, Max(1, Len(s) - n + 1), Len(s))

\* the windows `combined` passed to detect_multi_label, one per chunk read
RECURSIVE StreamWindows(_, _, _, _)
StreamWindows(text, chunk_size, position, previous_chunk) ==
    IF position > Len(text) THEN <<>>
    ELSE LET chunk == SubSeq(text, position,
                             Min(position + chunk_size - 1, Len(text)))
             combined == Tail_(previous_chunk, StreamOverlap) \o chunk
         IN <<combined>> \o StreamWindows(text, chunk_size,
                                          position + chunk_size, chunk)

RECURSIVE Flatten(_, _)
Flatten(ss, i) == IF i > Len(ss) THEN <<>> ELSE ss[i] \o Flatten(ss, i + 1)

\* list(dict.fromkeys(xs))
RECURSIVE Dedup(_, _, _)
Dedup(xs, i, acc) ==
    IF i > Len(xs) THEN acc
    ELSE Dedup(xs, i + 1,
               IF xs[i] \in SeqRange(acc) THEN acc ELSE Append(acc, xs[i]))

SeverityIndex(sev) == CHOOSE i \in 1..4 : SeverityLevels[i] = sev

RECURSIVE RatSum(_, _)
RatSum(ms, i) ==
    IF i > Len(ms) THEN <<0, 1>>
    ELSE RatAdd(ms[i].confidence, RatSum(ms, i + 1))

RECURSIVE MergeInfo(_, _, _)
MergeInfo(ms, i, acc) ==
    IF i > Len(ms) THEN acc
    ELSE LET inf == ms[i].extracted_info
         IN MergeInfo(ms, i + 1,
              [g \in DOMAIN acc \cup DOMAIN inf |->
                 (IF g \in DOMAIN acc THEN acc[g] ELSE <<>>)
                 \o (IF g \in DOMAIN inf THEN inf[g] ELSE <<>>)])

MaxSeverity(ms) ==
    SeverityLevels[CHOOSE k \in 1..4 :
        /\ \E i \in 1..Len(ms) : SeverityIndex(ms[i].severity) = k
        /\ \A i \in 1..Len(ms) : SeverityIndex(ms[i].severity) <= k]

\* one merged ErrorMatch of _merge_matches
MergeCategory(category, matches) ==
    LET Of(m) == m.category = category
        cat_matches == SelectSeq(matches, Of)
        merged_info == MergeInfo(cat_matches, 1, EmptyInfo)
    IN [category |-> category,
        confidence |-> RatDiv(RatSum(cat_matches, 1), Len(cat_matches)),
        matches |-> <<>>,
        extracted_info |-> [g \in DOMAIN merged_info |->
                              Dedup(merged_info[g], 1, <<>>)],
        severity |-> MaxSeverity(cat_matches)]

\* a bug: the matches of all windows are returned without grouping
MergeMatches_Ungrouped(matches) ==
    SortByConfidence(matches, 1, <<>>)

\* _merge_matches
MergeMatches(matches) ==
    LET cats == Dedup([i \in 1..Len(matches) |-> matches[i].category], 1, <<>>)
        merged == [i \in 1..Len(cats) |-> MergeCategory(cats[i], matches)]
    IN SortByConfidence(merged, 1, <<>>)

\* stream_detect
StreamDetect(pats, text, chunk_size) ==
    LET windows == StreamWindows(text, chunk_size, 1, <<>>)
        all_matches == Flatten([i \in 1..Len(windows) |->
                         DetectMultiLabel(pats, windows[i], DefaultThreshold)], 1)
    IN MergeMatches(all_matches)

(***************************************************************************)
(* extract_comprehensive_info                                              *)
(***************************************************************************)
\* the elements of a set of integers in increasing order
RECURSIVE Ascending(_)
Ascending(S) ==
    IF S = {} THEN <<>>
    ELSE LET m == CHOOSE x \in S : \A y \in S : x <= y
         IN <<m>> \o Ascending(S \ {m})

\* length of the run of "at" frame lines starting at position i
RECURSIVE FrameRun(_, _)
FrameRun(text, i) ==
    IF i <= Len(text) /\ text[i] = "at" THEN 1 + FrameRun(text, i + 1) ELSE 0

\* _extract_stack_traces: an "...Error:" line followed by frame lines is a
\* JavaScript trace; each trace is a dict {type, frames, raw}.  No fragment
\* starts a Python traceback.
ExtractStackTraces(text) ==
    LET starts == { i \in 1..Len(text) :
                      text[i] = "TypeError" /\ FrameRun(text, i + 1) > 0 }
        ordered == Ascending(starts)
    IN [k \in 1..Len(ordered) |->
          [type |-> "javascript", frames |-> FrameRun(text, ordered[k] + 1)]]

\* _generate_suggestions over the top three matches
RECURSIVE Suggestions(_, _)
Suggestions(error_matches, i) ==
    IF i > Min(3, Len(error_matches)) THEN <<>>
    ELSE LET m == error_matches[i]
         IN (IF m.category = "typescript"
             THEN IF Has(m.extracted_info, "error_code")
                  THEN <<"ts_documentation">> ELSE <<>>
             ELSE IF m.category = "memory"
             THEN <<"heap_size", "memory_leaks", "profile_memory">>
             ELSE IF m.category = "network"
             THEN <<"connectivity", "cors", "timeouts">>
             ELSE <<>>)
            \o Suggestions(error_matches, i + 1)

\* hash() of a list element: dicts are unhashable
Hashable(kind) == kind # "dict"

\* extract_comprehensive_info: [val, err]
ExtractComprehensiveInfo(pats, error_text) ==
    LET error_matches == DetectMultiLabel(pats, error_text, DefaultThreshold)
        stack_traces == ExtractStackTraces(error_text)
        \* the list-valued entries of `info` before de-duplication, with the
        \* kind of their elements (the extractors that return sets of strings
        \* or ints are "files": every element hashable)
        lists == [ error_categories |->
                     [kind |-> "tuple",
                      items |-> [i \in 1..Len(error_matches) |->
                                   <<error_matches[i].category,
                                     error_matches[i].confidence>>]],
                   files |->
                     [kind |-> "str",
                      items |-> IF "at" \in SeqRange(error_text)
                                THEN <<"x.js">> ELSE <<>>],
                   stack_traces |-> [kind |-> "dict", items |-> stack_traces],
                   suggestions |->
                     [kind |-> "str",
                      items |-> SubSeq(Dedup(Suggestions(error_matches, 1), 1, <<>>),
                                       1, Min(5, Len(Dedup(Suggestions(error_matches, 1),
                                                           1, <<>>))))] ]
        \* info[key].extend(values) for the groups captured by the patterns
        \* (strings)
        extracted == MergeInfo(error_matches, 1, EmptyInfo)
        \* list(dict.fromkeys(info[key])) hashes every element
        raises == \E key \in DOMAIN lists :
                     lists[key].items # <<>> /\ ~Hashable(lists[key].kind)
    IN  IF raises THEN [val |-> None, err |-> "TypeError"]
        ELSE [val |-> [severity |-> IF error_matches # <<>>
                                    THEN error_matches[1].severity ELSE "unknown",
                       lists |-> [key \in DOMAIN lists |->
                                    Dedup(lists[key].items, 1, <<>>)],
                       extracted |-> [g \in DOMAIN extracted |->
                                        Dedup(extracted[g], 1, <<>>)]],
              err |-> NoErr]

(***************************************************************************)
(* Detector: state machine                                                 *)
(***************************************************************************)
ChunkSizes == 1..MaxTextLen

DetRun(op, text, arg, val, err) ==
    [op |-> op, text |-> text, arg |-> arg, val |-> val, err |-> err]

\* the detector is handed a text (for stream_detect: the content of the file)
Input(text) == [op |-> "input", text |-> text]

DetectCall(threshold) ==
    /\ det.op = "input"
    /\ LET r == DetectCached(self_patterns, _cache, det.text, threshold)
       IN /\ det' = DetRun("detect_multi_label", det.text, threshold,
                           r.val, NoErr)
          /\ _cache' = r.cache
    /\ UNCHANGED <<tsVars, self_patterns, scan, inflight>>

\* on a detector that has made no other call
StreamDetectCall(chunk_size) ==
    /\ det.op = "input"
    /\ _cache = EmptyResults
    /\ det' = DetRun("stream_detect", det.text, chunk_size,
                     StreamDetect(self_patterns, det.text, chunk_size), NoErr)
    /\ _cache' = CacheAll(self_patterns, _cache,
                          StreamWindows(det.text, chunk_size, 1, <<>>), 1)
    /\ UNCHANGED <<tsVars, self_patterns, scan, inflight>>

\* on a detector that has made no other call
ExtractCall ==
    /\ det.op = "input"
    /\ _cache = EmptyResults
    /\ LET r == ExtractComprehensiveInfo(self_patterns, det.text)
       IN det' = DetRun("extract_comprehensive_info", det.text, 0, r.val, r.err)
    /\ _cache' = DetectCached(self_patterns, _cache, det.text, DefaultThreshold).cache
    /\ UNCHANGED <<tsVars, self_patterns, scan, inflight>>

\* AdvancedErrorDetector.__init__; no template directory is involved
InitDetector ==
    /\ disk = EmptyDir
    /\ templates = EmptyDir
    /\ template_versions = EmptyDir
    /\ dependencies = NoDeps
    /\ cache = EmptyCache
    /\ edits = 0
    /\ lastReload = NoName
    /\ ret = Ret("__init__", NoName, None, NoErr)
    /\ det \in { Input(text) : text \in Texts }
    /\ scan = IdleScan
    /\ now = 0
    /\ user_disk = EmptyDir
    /\ self_patterns = Patterns
    /\ _cache = EmptyResults
    /\ inflight = NoCalls

NextDetector ==
    \/ \E threshold \in Thresholds : DetectCall(threshold)
    \/ \E chunk_size \in ChunkSizes : StreamDetectCall(chunk_size)
    \/ ExtractCall

SpecDetector == InitDetector /\ [][NextDetector]_vars

(***************************************************************************)
(* Claims about the detector                                               *)
(***************************************************************************)
\* number of matches of a category with a given matched text
RECURSIVE CountPairs(_, _, _)
CountPairs(ms, frags, i) ==
    IF i > Len(ms) THEN 0
    ELSE (IF ms[i].text = frags THEN 1 ELSE 0) + CountPairs(ms, frags, i + 1)

PairCount(results, category, frags) ==
    LET Of(m) == m.category = category
        of == SelectSeq(results, Of)
    IN CountPairs(Flatten([i \in 1..Len(of) |-> of[i].matches], 1), frags, 1)

\* C4: for any input and any chunk_size, stream_detect yields the same
\* multiset of (category, matched text) pairs as detect_multi_label applied
\* to the whole input.
C4_StreamEqualsWhole ==
    det.op = "stream_detect" =>
        \A c \in Categories, k \in 1..Len(Patterns) :
            PairCount(det.val, c, Patterns[k].frags)
              = PairCount(DetectMultiLabel(Patterns, det.text, DefaultThreshold),
                          c, Patterns[k].frags)

\* C8: extract_comprehensive_info returns a result and never raises, for
\* every input text.
C8_ExtractNeverRaises ==
    det.op = "extract_comprehensive_info" => det.err = NoErr

\* C9: every ErrorMatch returned by detect_multi_label or stream_detect has a
\* confidence in [0,1] and a severity that is one of low, medium, high,
\* critical.
C9_ConfidenceAndSeverityInRange ==
    det.op \in {"detect_multi_label", "stream_detect"} =>
        \A i \in 1..Len(det.val) :
            /\ det.val[i].confidence[2] > 0
            /\ 0 <= det.val[i].confidence[1]
            /\ det.val[i].confidence[1] <= det.val[i].confidence[2]
            /\ det.val[i].severity \in SeqRange(SeverityLevels)

\* a chunked scan that returned several categories, one of them with a
\* confidence strictly between 0 and 1
C9_Witness ==
    /\ det.op = "stream_detect"
    /\ Len(det.val) >= 2
    /\ \E i \in 1..Len(det.val) :
          /\ 0 < det.val[i].confidence[1]
          /\ det.val[i].confidence[1] < det.val[i].confidence[2]

\* hit count of a pattern: every non-overlapping occurrence when the pattern
\* declares capture names, a single hit otherwise
HitCount(pat, text) ==
    LET occ == { i \in 1..Len(text) : MatchesAt(pat.frags, text, i) }
    IN IF pat.extract_groups # <<>> THEN Cardinality(occ)
       ELSE IF occ # {} THEN 1 ELSE 0

RECURSIVE WeightedHits(_, _, _)
WeightedHits(category, text, k) ==
    IF k > Len(Patterns) THEN 0
    ELSE (IF Patterns[k].category = category
          THEN Patterns[k].weight * HitCount(Patterns[k], text) ELSE 0)
         + WeightedHits(category, text, k + 1)

RECURSIVE AllWeightedHits(_, _)
AllWeightedHits(text, k) ==
    IF k > Len(Patterns) THEN 0
    ELSE Patterns[k].weight * HitCount(Patterns[k], text)
         + AllWeightedHits(text, k + 1)

\* C10: each returned category's confidence is its accumulated score (sum
\* over its patterns of weight times hit count) divided by the total score
\* over all categories; with threshold 0 every category that was hit is
\* returned and the confidences sum to 1.
C10_ConfidenceIsScoreOverTotal ==
    (det.op = "detect_multi_label" /\ AllWeightedHits(det.text, 1) > 0) =>
        /\ \A i \in 1..Len(det.val) :
              RatEq(det.val[i].confidence,
                    <<WeightedHits(det.val[i].category, det.text, 1),
                      AllWeightedHits(det.text, 1)>>)
        /\ det.arg = <<0, 1>> =>
              /\ { det.val[i].category : i \in 1..Len(det.val) }
                   = { c \in Categories : WeightedHits(c, det.text, 1) > 0 }
              /\ RatEq(RatSum(det.val, 1), <<1, 1>>)

\* a threshold-0 classification with several categories, one pattern hit twice
C10_Witness ==
    /\ det.op = "detect_multi_label"
    /\ det.arg = <<0, 1>>
    /\ Len(det.val) >= 2
    /\ \E k \in 1..Len(Patterns) : HitCount(Patterns[k], det.text) >= 2

\* position in the catalog of the first pattern declared for a category
CatalogIndex(pats, category) ==
    CHOOSE i \in 1..Len(pats) :
        /\ pats[i].category = category
        /\ \A j \in 1..(i - 1) : pats[j].category # category

CrisisKeywords == {"oom_kw"}

\* C23: detect_multi_label grades the top match 'critical' only when the
\* text carries a crisis indicator or the category is critical-prone (memory,
\* security); a text with only moderate indicators is graded lower.
C23_CriticalNeedsCrisis ==
    (/\ det.op = "detect_multi_label"
     /\ det.val # <<>>
     /\ det.val[1].severity = "critical") =>
        \/ TextKeywords(det.text) \cap CrisisKeywords # {}
        \/ det.val[1].category \in {"memory", "security"}

\* the categories detect_multi_label reports for the windows of a file
RECURSIVE WindowCategories(_, _, _)
WindowCategories(pats, windows, i) ==
    IF i > Len(windows) THEN {}
    ELSE LET ms == DetectMultiLabel(pats, windows[i], DefaultThreshold)
         IN { ms[k].category : k \in 1..Len(ms) }
            \cup WindowCategories(pats, windows, i + 1)

Occurrences(values, v) ==
    Cardinality({ k \in 1..Len(values) : values[k] = v })

\* C26: for every catalog pattern that declares capture names and matches
\* the text, the category's extracted_info maps each declared capture name to
\* the strings captured by every occurrence of the pattern, for patterns with
\* one capture group as well as for patterns with several.
C26_CapturesExtracted ==
    det.op = "detect_multi_label" =>
        \A i \in 1..Len(det.val), k \in 1..Len(self_patterns) :
            (/\ self_patterns[k].category = det.val[i].category
             /\ self_patterns[k].extract_groups # <<>>
             /\ FindAllFrom(self_patterns[k].frags, det.text, 1) # <<>>) =>
                \A j \in 1..Len(self_patterns[k].extract_groups) :
                    LET g == self_patterns[k].extract_groups[j]
                    IN /\ g \in DOMAIN det.val[i].extracted_info
                       /\ Occurrences(det.val[i].extracted_info[g],
                                      self_patterns[k].frags)
                            = Len(FindAllFrom(self_patterns[k].frags,
                                              det.text, 1))

(***************************************************************************)
(* Detector with its result cache and custom patterns: state machine       *)
(***************************************************************************)
\* number of earlier detect_multi_label calls whose results the cache holds
Prefill == 998
\* custom patterns added to the catalog
MaxCustom == 1
\* longest text handed to the long-lived detector
MaxClsLen == 2

\* a pattern an application adds for lines no catalog pattern matches
\* (tests/test_advanced_detector.py, examples: category GENERAL, one group)
CustomPatterns == {
    [category |-> "general", weight |-> 20, frags |-> <<"ok">>,
     extract_groups |-> <<"message">>, ngroups |-> 1] }

ClsFragments == {"TypeError", "ok"}
ClsTexts == UNION { [1..n -> ClsFragments] : n \in 0..MaxClsLen }
ClsThresholds == {<<0, 1>>, DefaultThreshold}

\* the cache of a detector that has served
\* detect_multi_label("<a line no pattern matches>", n / 1000), n = 1..Prefill
Prefilled ==
    [k \in { CacheKey(<<"ok">>, <<n, 1000>>) : n \in 1..Prefill } |-> <<>>]

\* the caller has another text classified
NewInput(text) ==
    /\ det.op # "input"
    /\ det' = Input(text)
    /\ UNCHANGED <<tsVars, self_patterns, _cache, scan,
                   inflight>>

\* add_custom_pattern
AddCustomPattern(pattern) ==
    /\ Len(self_patterns) < Len(Patterns) + MaxCustom
    /\ self_patterns' = Append(self_patterns, pattern)
    /\ det' = [op |-> "add_custom_pattern"]
    /\ UNCHANGED <<tsVars, _cache, scan, inflight>>

InitClassifier ==
    /\ disk = EmptyDir
    /\ templates = EmptyDir
    /\ template_versions = EmptyDir
    /\ dependencies = NoDeps
    /\ cache = EmptyCache
    /\ edits = 0
    /\ lastReload = NoName
    /\ ret = Ret("__init__", NoName, None, NoErr)
    /\ det = IdleDet
    /\ scan = IdleScan
    /\ now = 0
    /\ user_disk = EmptyDir
    /\ self_patterns = Patterns
    /\ _cache = Prefilled
    /\ inflight = NoCalls

NextClassifier ==
    \/ \E text \in ClsTexts : NewInput(text)
    \/ \E threshold \in ClsThresholds : DetectCall(threshold)
    \/ \E pattern \in CustomPatterns : AddCustomPattern(pattern)

SpecClassifier == InitClassifier /\ [][NextClassifier]_vars

(***************************************************************************)
(* Claims about the long-lived detector                                    *)
(***************************************************************************)
\* C12: after add_custom_pattern(p), every later detect_multi_label(text, t)
\* returns what an uncached classification over the current pattern list
\* returns, whatever calls preceded the addition.
C12_CustomPatternSeen ==
    (det.op = "detect_multi_label" /\ Len(self_patterns) > Len(Patterns)) =>
        det.val = DetectMultiLabel(self_patterns, det.text, det.arg)

\* C13: the result cache never holds more than its capacity, and a newly
\* computed result is cached even at capacity (the oldest entry is evicted).
C13_CacheBoundedAndCaching ==
    /\ Cardinality(DOMAIN _cache) <= _cache_size
    /\ (det.op = "detect_multi_label" /\ det.text # <<>>) =>
            CacheKey(det.text, det.arg) \in DOMAIN _cache

(***************************************************************************)
(* performance_optimizer: StreamProcessor and ParallelErrorDetector        *)
(*                                                                         *)
(* A file is a sequence of ASCII bytes, offsets are 0-based as in the      *)
(* source.  File sizes are counted in bytes of the model: the 5 MiB and    *)
(* 10 MiB thresholds of the source are 5 and 10 here.                      *)
(***************************************************************************)
\* longest file explored
MaxFileLen == 11

Bytes == {"a", "b"}

Files == UNION { [1..n -> Bytes] : n \in 1..MaxFileLen }

\* process_file_parallel: files below this size are scanned by a
\* StreamProcessor (5 * 1024 * 1024 in the source)
SmallFileLimit == 5

\* process_file_mmap: files above this size are memory-mapped and chunked
\* (10 * 1024 * 1024 in the source)
MmapLimit == 10

\* StreamProcessor.__init__ default overlap
DefaultOverlap == 1024

\* the (pattern, metadata) list handed to the scanner: literal patterns
ScanPatterns == << <<"a", "b">>, <<"b">> >>

\* data[a:b]
Slice(data, a, b) == SubSeq(data, a + 1, b)

ScanMatch(pattern, position, text) ==
    [pattern |-> pattern, position |-> position, text |-> text]

\* pattern.finditer(content) for one pattern, as match dicts
FindIter(pattern, content) ==
    LET pos == FindAllFrom(pattern, content, 1)
    IN [k \in 1..Len(pos) |-> ScanMatch(pattern, pos[k] - 1, pattern)]

\* _process_string
ProcessString(content, patterns) ==
    Flatten([k \in 1..Len(patterns) |-> FindIter(patterns[k], content)], 1)

Shift(ms, delta) ==
    [k \in 1..Len(ms) |-> [ms[k] EXCEPT !.position = @ + delta]]

\* _process_mmap
RECURSIVE ProcessMmap(_, _, _, _, _)
ProcessMmap(mmapped, patterns, chunk_size, overlap, position) ==
    IF position >= Len(mmapped) THEN <<>>
    ELSE LET chunk_end == Min(position + chunk_size, Len(mmapped))
             overlap_start == Max(0, position - overlap)
             overlap_chunk == IF position > 0
                              THEN Slice(mmapped, overlap_start, position)
                              ELSE <<>>
             chunk == overlap_chunk \o Slice(mmapped, position, chunk_end)
             found == ProcessString(chunk, patterns)
         IN (IF position > 0
             THEN Shift(found, position - Len(overlap_chunk)) ELSE found)
            \o ProcessMmap(mmapped, patterns, chunk_size, overlap, chunk_end)

\* process_file_mmap of a StreamProcessor(chunk_size, overlap)
ProcessFileMmap(file, patterns, chunk_size, overlap) ==
    IF Len(file) > MmapLimit
    THEN ProcessMmap(file, patterns, chunk_size, overlap, 0)
    ELSE ProcessString(file, patterns)

\* _prepare_chunks
RECURSIVE PrepareChunksFrom(_, _, _)
PrepareChunksFrom(file_size, chunk_size, position) ==
    IF position >= file_size THEN <<>>
    ELSE LET overlap == Min(1024, chunk_size \div 10)
             chunk_end == Min(position + chunk_size, file_size)
         IN << [start |-> position, end |-> chunk_end,
                overlap_start |-> IF position > 0
                                  THEN Max(0, position - overlap) ELSE 0] >>
            \o PrepareChunksFrom(file_size, chunk_size, chunk_end)

PrepareChunks(file, chunk_size) == PrepareChunksFrom(Len(file), chunk_size, 0)

\* _process_chunk
ProcessChunk(file, chunk_info, patterns) ==
    LET chunk_text == Slice(file, chunk_info.overlap_start, chunk_info.end)
        InRange(m) == chunk_info.start <= m.position
                      /\ m.position < chunk_info.end
    IN SelectSeq(Shift(ProcessString(chunk_text, patterns),
                       chunk_info.overlap_start), InRange)

\* all_matches.sort(key=position): stable insertion
RECURSIVE InsertByPosition(_, _, _)
InsertByPosition(sorted, m, i) ==
    IF i > Len(sorted) THEN Append(sorted, m)
    ELSE IF m.position < sorted[i].position
         THEN SubSeq(sorted, 1, i - 1) \o <<m>> \o SubSeq(sorted, i, Len(sorted))
         ELSE InsertByPosition(sorted, m, i + 1)

RECURSIVE SortByPosition(_, _, _)
SortByPosition(ms, i, acc) ==
    IF i > Len(ms) THEN acc
    ELSE SortByPosition(ms, i + 1, InsertByPosition(acc, ms[i], 1))

\* _deduplicate_matches: first entry of each (position, pattern, text) key
DeduplicateMatches(matches) == Dedup(matches, 1, <<>>)

\* process_file_parallel (every worker returns within the timeout)
ProcessFileParallel(file, patterns, chunk_size) ==
    IF Len(file) < SmallFileLimit
    THEN ProcessFileMmap(file, patterns, chunk_size, DefaultOverlap)
    ELSE LET chunks == PrepareChunks(file, chunk_size)
             all_matches == Flatten([k \in 1..Len(chunks) |->
                                ProcessChunk(file, chunks[k], patterns)], 1)
         IN DeduplicateMatches(SortByPosition(all_matches, 1, <<>>))

(***************************************************************************)
(* Scanner: state machine                                                  *)
(***************************************************************************)
MmapChunkSizes == {4, 8}
MmapOverlaps == {1, 2}
ParallelChunkSizes == {4, 10, 11}

ScanRun(op, file, chunk_size, overlap, val) ==
    [op |-> op, file |-> file, chunk_size |-> chunk_size,
     overlap |-> overlap, val |-> val]

ScanInput(file) == [op |-> "input", file |-> file]

\* StreamProcessor(chunk_size, overlap).process_file_mmap(file, patterns)
ProcessFileMmapCall(chunk_size, overlap) ==
    /\ scan.op = "input"
    /\ scan' = ScanRun("process_file_mmap", scan.file, chunk_size, overlap,
                       ProcessFileMmap(scan.file, ScanPatterns, chunk_size, overlap))
    /\ UNCHANGED <<tsVars, detVars, inflight>>

\* ParallelErrorDetector().process_file_parallel(file, patterns, chunk_size)
ProcessFileParallelCall(chunk_size) ==
    /\ scan.op = "input"
    /\ scan' = ScanRun("process_file_parallel", scan.file, chunk_size,
                       Min(1024, chunk_size \div 10),
                       ProcessFileParallel(scan.file, ScanPatterns, chunk_size))
    /\ UNCHANGED <<tsVars, detVars, inflight>>

InitScanner ==
    /\ disk = EmptyDir
    /\ templates = EmptyDir
    /\ template_versions = EmptyDir
    /\ dependencies = NoDeps
    /\ cache = EmptyCache
    /\ edits = 0
    /\ lastReload = NoName
    /\ ret = Ret("__init__", NoName, None, NoErr)
    /\ det = IdleDet
    /\ scan \in { ScanInput(file) : file \in Files }
    /\ now = 0
    /\ user_disk = EmptyDir
    /\ self_patterns = NoPatterns
    /\ _cache = EmptyResults
    /\ inflight = NoCalls

NextScanner ==
    \/ \E chunk_size \in MmapChunkSizes, overlap \in MmapOverlaps :
            ProcessFileMmapCall(chunk_size, overlap)
    \/ \E chunk_size \in ParallelChunkSizes : ProcessFileParallelCall(chunk_size)

SpecScanner == InitScanner /\ [][NextScanner]_vars

(***************************************************************************)
(* Claims about the scanner                                                *)
(***************************************************************************)
\* C5: in a chunked process_file_parallel scan, a pattern occurrence that
\* starts in the last `overlap` bytes of chunk n-1 and ends inside chunk n is
\* present in the result with its full matched text.
C5_BoundaryOccurrenceFound ==
    (scan.op = "process_file_parallel" /\ Len(scan.file) >= SmallFileLimit) =>
        LET chunks == PrepareChunks(scan.file, scan.chunk_size)
        IN \A n \in 2..Len(chunks), k \in 1..Len(ScanPatterns),
              q \in 0..(Len(scan.file) - 1) :
              (/\ chunks[n].start - scan.overlap <= q
               /\ q < chunks[n].start
               /\ MatchesAt(ScanPatterns[k], scan.file, q + 1)
               /\ q + Len(ScanPatterns[k]) > chunks[n].start
               /\ q + Len(ScanPatterns[k]) <= chunks[n].end)
              => \E i \in 1..Len(scan.val) :
                    scan.val[i] = ScanMatch(ScanPatterns[k], q, ScanPatterns[k])

\* C6: the match list of a chunked scan (process_file_mmap over a
\* memory-mapped file, process_file_parallel) never contains two entries
\* with the same (pattern, absolute offset, matched text).
C6_NoDuplicateMatches ==
    scan.op \in {"process_file_mmap", "process_file_parallel"} =>
        \A i, j \in 1..Len(scan.val) :
            scan.val[i] = scan.val[j] => i = j

(***************************************************************************)
(* ErrorDetector.get_severity (detector.py).  A text is a sequence of      *)
(* characters.                                                             *)
(***************************************************************************)
\* longest input text explored, in words
MaxWords == 2

Words == {
    <<"C", "O", "R", "S">>,
    <<"e", "r", "r", "o", "r">>,
    <<"T", "y", "p", "e", "E", "r", "r", "o", "r", ":">>,
    <<"u", "n", "d", "e", "f", "i", "n", "e", "d">>,
    <<"W", "a", "r", "n", "i", "n", "g", ":">>,
    <<"d", "e", "p", "r", "e", "c", "a", "t", "e", "d">>,
    <<"F", "A", "T", "A", "L">>,
    <<"E", "R", "R", "O", "R", ":">>,
    <<"o", "u", "t">>,
    <<"o", "f">>,
    <<"m", "e", "m", "o", "r", "y">>,
    <<"B", "u", "i", "l", "d">>,
    <<"f", "a", "i", "l", "e", "d">>,
    <<"t", "i", "m", "e", "o", "u", "t">> }

\* the texts of up to MaxWords words joined by single spaces
RECURSIVE WordTexts(_)
WordTexts(n) ==
    IF n = 0 THEN {<<>>}
    ELSE IF n = 1 THEN Words
    ELSE { t \o <<" ">> \o w : t \in WordTexts(n - 1), w \in Words }

SeverityTexts == UNION { WordTexts(n) : n \in 0..MaxWords }

\* the error types ErrorDetector.detect returns that get_severity tells apart
SeverityTypes == {"memory", "build", "network", "typescript", "javascript",
                  "general"}

UpperCase == <<"A", "B", "C", "D", "E", "F", "G", "H", "I", "J", "K", "L", "M", "N", "O", "P", "Q", "R", "S", "T", "U", "V", "W", "X", "Y", "Z">>
LowerCase == <<"a", "b", "c", "d", "e", "f", "g", "h", "i", "j", "k", "l", "m", "n", "o", "p", "q", "r", "s", "t", "u", "v", "w", "x", "y", "z">>

\* str.lower()
LowerChar(c) ==
    IF \E i \in 1..Len(UpperCase) : UpperCase[i] = c
    THEN LowerCase[CHOOSE i \in 1..Len(UpperCase) : UpperCase[i] = c]
    ELSE c

Lower(text) == [i \in 1..Len(text) |-> LowerChar(text[i])]

\* keyword in lower_text
Contains(text, keyword) ==
    \E i \in 1..(Len(text) - Len(keyword) + 1) :
        SubSeq(text, i, i + Len(keyword) - 1) = keyword

critical_keywords == {
    <<"b", "u", "i", "l", "d", " ", "f", "a", "i", "l", "e", "d">>,
    <<"c", "o", "m", "p", "i", "l", "a", "t", "i", "o", "n", " ", "f", "a", "i", "l", "e", "d">>,
    <<"f", "a", "t", "a", "l", " ", "e", "r", "r", "o", "r">>,
    <<"o", "u", "t", " ", "o", "f", " ", "m", "e", "m", "o", "r", "y">>,
    <<"s", "e", "g", "m", "e", "n", "t", "a", "t", "i", "o", "n", " ", "f", "a", "u", "l", "t">>,
    <<"k", "e", "r", "n", "e", "l", " ", "p", "a", "n", "i", "c">>,
    <<"d", "a", "t", "a", " ", "l", "o", "s", "s">>,
    <<"s", "e", "c", "u", "r", "i", "t", "y", " ", "v", "u", "l", "n", "e", "r", "a", "b", "i", "l", "i", "t", "y">>,
    <<"a", "u", "t", "h", "e", "n", "t", "i", "c", "a", "t", "i", "o", "n", " ", "f", "a", "i", "l", "e", "d">> }

high_keywords == {
    <<"e", "r", "r", "o", "r">>,
    <<"e", "x", "c", "e", "p", "t", "i", "o", "n">>,
    <<"f", "a", "i", "l", "e", "d">>,
    <<"c", "a", "n", "n", "o", "t">>,
    <<"u", "n", "d", "e", "f", "i", "n", "e", "d">>,
    <<"n", "u", "l", "l", " ", "r", "e", "f", "e", "r", "e", "n", "c", "e">>,
    <<"t", "y", "p", "e", " ", "e", "r", "r", "o", "r">>,
    <<"s", "y", "n", "t", "a", "x", " ", "e", "r", "r", "o", "r">> }

\* get_severity
GetSeverity(error_text, error_type) ==
    LET lower_text == Lower(error_text)
    IN IF \E keyword \in critical_keywords : Contains(lower_text, keyword)
       THEN "critical"
       ELSE IF \/ error_type \in {"memory", "build"}
               \/ \E keyword \in high_keywords : Contains(lower_text, keyword)
       THEN "high"
       ELSE IF error_type \in {"network", "typescript", "javascript"}
       THEN "medium"
       ELSE "low"

\* ErrorDetector().get_severity(error_text, error_type)
GetSeverityCall ==
    /\ det.op = "input"
    /\ det' = DetRun("get_severity", det.text, det.error_type,
                     GetSeverity(det.text, det.error_type), NoErr)
    /\ UNCHANGED <<tsVars, self_patterns, _cache, scan, inflight>>

InitSeverity ==
    /\ \E text \in SeverityTexts, error_type \in SeverityTypes :
          det = [op |-> "input", text |-> text, error_type |-> error_type]
    /\ disk = EmptyDir
    /\ templates = [n \in {} |-> None]
    /\ template_versions = [n \in {} |-> None]
    /\ dependencies = NoDeps
    /\ cache = EmptyCache
    /\ edits = 0
    /\ lastReload = NoName
    /\ ret = Ret("__init__", NoName, None, NoErr)
    /\ scan = IdleScan
    /\ now = 0
    /\ user_disk = EmptyDir
    /\ self_patterns = NoPatterns
    /\ _cache = EmptyResults
    /\ inflight = NoCalls

NextSeverity == GetSeverityCall

SpecSeverity == InitSeverity /\ [][NextSeverity]_vars

HasCriticalKeyword(text) ==
    \E keyword \in critical_keywords : Contains(Lower(text), keyword)

\* C25: ErrorDetector.get_severity grades a text with a critical keyword
\* 'critical'; without one, 'CORS error' of type network is 'medium',
\* 'Warning: deprecated' of type general is 'low' and 'TypeError: undefined'
\* of type javascript is 'high'.
C25_SeverityByType ==
    det.op = "get_severity" =>
        /\ HasCriticalKeyword(det.text) => det.val = "critical"
        /\ (det.text = <<"C", "O", "R", "S">> \o <<" ">> \o <<"e", "r", "r", "o", "r">>
            /\ det.arg = "network") => det.val = "medium"
        /\ (det.text = <<"W", "a", "r", "n", "i", "n", "g", ":">> \o <<" ">> \o <<"d", "e", "p", "r", "e", "c", "a", "t", "e", "d">>
            /\ det.arg = "general") => det.val = "low"
        /\ (det.text = <<"T", "y", "p", "e", "E", "r", "r", "o", "r", ":">> \o <<" ">> \o <<"u", "n", "d", "e", "f", "i", "n", "e", "d">>
            /\ det.arg = "javascript") => det.val = "high"

(***************************************************************************)
(* BatchProcessor.process_directory: worker threads sharing one            *)
(* OptimizedErrorAggregator.  A dict read and the store that follows it    *)
(* are separate steps of a thread.                                         *)
(***************************************************************************)
\* most matches found in one file
MaxMatches == 2

\* the category and severity metadata of a match
MatchKinds == { [category |-> "memory", severity |-> "critical"],
                [category |-> "memory", severity |-> "high"],
                [category |-> "network", severity |-> "high"] }

\* the matches process_file_parallel finds in one file
FileMatches == UNION { [1..n -> MatchKinds] : n \in 1..MaxMatches }

\* one worker thread per file
Workers == {"w1", "w2"}

\* dict.get(key, 0)
GetCount(d, key) == IF key \in DOMAIN d THEN d[key] ELSE 0

\* d[key] = value
Put(d, key, value) ==
    [k \in DOMAIN d \cup {key} |-> IF k = key THEN value ELSE d[k]]

\* a worker's frame in _process_single_file / add_error
Frame(matches, i, pc, tmp) ==
    [matches |-> matches, i |-> i, pc |-> pc, tmp |-> tmp]

\* the frame of a worker with its program counter moved
Goto(th, pc, tmp) ==
    [inflight EXCEPT ![th] = Frame(inflight[th].matches, inflight[th].i,
                                   pc, tmp)]

Running(th) == inflight[th].i <= Len(inflight[th].matches)

Current(th) == inflight[th].matches[inflight[th].i]

\* add_error: self.error_counts.get(category, 0) is read
ReadCount(th) ==
    /\ scan.op = "process_directory"
    /\ Running(th)
    /\ inflight[th].pc = "read_count"
    /\ inflight' = Goto(th, "write_count",
                        GetCount(scan.error_counts, Current(th).category))
    /\ UNCHANGED <<tsVars, detVars, scan>>

\* add_error: self.error_counts[category] = ... + 1 is stored
WriteCount(th) ==
    /\ scan.op = "process_directory"
    /\ Running(th)
    /\ inflight[th].pc = "write_count"
    /\ scan' = [scan EXCEPT !.error_counts =
                    Put(@, Current(th).category, inflight[th].tmp + 1)]
    /\ inflight' = Goto(th, "check_category", 0)
    /\ UNCHANGED <<tsVars, detVars>>

\* add_error: if category not in self.severity_distribution
CheckCategory(th) ==
    /\ scan.op = "process_directory"
    /\ Running(th)
    /\ inflight[th].pc = "check_category"
    /\ inflight' = Goto(th,
                        IF Current(th).category
                              \notin DOMAIN scan.severity_distribution
                        THEN "init_category" ELSE "read_severity", 0)
    /\ UNCHANGED <<tsVars, detVars, scan>>

\* add_error: self.severity_distribution[category] = {}
InitCategory(th) ==
    /\ scan.op = "process_directory"
    /\ Running(th)
    /\ inflight[th].pc = "init_category"
    /\ scan' = [scan EXCEPT !.severity_distribution =
                    Put(@, Current(th).category, [s \in {} |-> 0])]
    /\ inflight' = Goto(th, "read_severity", 0)
    /\ UNCHANGED <<tsVars, detVars>>

\* add_error: self.severity_distribution[category].get(severity, 0) is read
ReadSeverity(th) ==
    /\ scan.op = "process_directory"
    /\ Running(th)
    /\ inflight[th].pc = "read_severity"
    /\ inflight' = Goto(th, "write_severity",
                        GetCount(scan.severity_distribution[
                                    Current(th).category],
                                 Current(th).severity))
    /\ UNCHANGED <<tsVars, detVars, scan>>

\* add_error: self.severity_distribution[category][severity] = ... + 1 is
\* stored and the loop of _process_single_file moves to the next match
WriteSeverity(th) ==
    /\ scan.op = "process_directory"
    /\ Running(th)
    /\ inflight[th].pc = "write_severity"
    /\ scan' = [scan EXCEPT !.severity_distribution =
                    Put(@, Current(th).category,
                        Put(@[Current(th).category], Current(th).severity,
                            inflight[th].tmp + 1))]
    /\ inflight' = [inflight EXCEPT ![th] =
                        Frame(inflight[th].matches, inflight[th].i + 1,
                              "read_count", 0)]
    /\ UNCHANGED <<tsVars, detVars>>

RECURSIVE SumCounts(_, _)
SumCounts(d, keys) ==
    IF keys = {} THEN 0
    ELSE LET k == CHOOSE x \in keys : TRUE
         IN d[k] + SumCounts(d, keys \ {k})

\* get_summary, once every future has completed
GetSummary ==
    /\ scan.op = "process_directory"
    /\ \A th \in Workers : ~Running(th)
    /\ scan' = [scan EXCEPT
                  !.op = "summary",
                  !.total_errors =
                      SumCounts(scan.error_counts, DOMAIN scan.error_counts)]
    /\ UNCHANGED <<tsVars, detVars, inflight>>

InitBatch ==
    /\ inflight \in [Workers -> { Frame(matches, 1, "read_count", 0) :
                                    matches \in FileMatches }]
    /\ scan = [op |-> "process_directory",
               error_counts |-> [c \in {} |-> 0],
               severity_distribution |-> [c \in {} |-> 0],
               total_errors |-> 0]
    /\ disk = EmptyDir
    /\ templates = EmptyDir
    /\ template_versions = EmptyDir
    /\ dependencies = NoDeps
    /\ cache = EmptyCache
    /\ edits = 0
    /\ lastReload = NoName
    /\ ret = Ret("__init__", NoName, None, NoErr)
    /\ det = IdleDet
    /\ now = 0
    /\ user_disk = EmptyDir
    /\ self_patterns = NoPatterns
    /\ _cache = EmptyResults

NextBatch ==
    \/ \E th \in Workers : ReadCount(th)
    \/ \E th \in Workers : WriteCount(th)
    \/ \E th \in Workers : CheckCategory(th)
    \/ \E th \in Workers : InitCategory(th)
    \/ \E th \in Workers : ReadSeverity(th)
    \/ \E th \in Workers : WriteSeverity(th)
    \/ GetSummary

SpecBatch == InitBatch /\ [][NextBatch]_vars

\* the number of matches found across all files
RECURSIVE MatchesFound(_)
MatchesFound(ths) ==
    IF ths = {} THEN 0
    ELSE LET th == CHOOSE x \in ths : TRUE
         IN Len(inflight[th].matches) + MatchesFound(ths \ {th})

\* C29: process_directory counts every match exactly once under every
\* interleaving of the worker threads: total_errors equals the number of
\* matches found across all files, and for each category the severity counts
\* sum to the category's count.
C29_EveryMatchCounted ==
    scan.op = "summary" =>
        /\ scan.total_errors = MatchesFound(Workers)
        /\ DOMAIN scan.severity_distribution = DOMAIN scan.error_counts
        /\ \A c \in DOMAIN scan.error_counts :
              SumCounts(scan.severity_distribution[c],
                        DOMAIN scan.severity_distribution[c])
                = scan.error_counts[c]

(***************************************************************************)
(* CompiledPatternCache: threads calling get, which holds self._lock        *)
(***************************************************************************)
\* largest max_size explored
MaxCacheSize == 2

\* most get calls in one behaviour
MaxGets == 4

\* key = (pattern, flags)
PatternKeys == { <<pattern, 0>> : pattern \in {"p1", "p2", "p3"} }

CacheThreads == {"t1", "t2"}

\* no key
NoKey == <<>>

\* deque.remove(key)
Remove(order, key) ==
    LET Other(k) == k # key IN SelectSeq(order, Other)

\* deque.append(key) on a deque(maxlen=max_size)
AppendBounded(order, key, maxlen) ==
    IF maxlen = 0 THEN order
    ELSE IF Len(order) = maxlen THEN Append(Tail(order), key)
    ELSE Append(order, key)

\* a bug: a hit leaves the access order as it is
MoveToEnd_Keep(order, key, maxlen) == order

\* get, lines 41-43: the key becomes the most recently used
MoveToEnd(order, key, maxlen) ==
    AppendBounded(Remove(order, key), key, maxlen)

\* the body of get under the lock: c is [cache, access_order, max_size];
\* evicted is the key removed from the cache, if any
PatternCacheGet(c, key) ==
    IF key \in DOMAIN c.cache
    THEN [cache |-> c.cache,
          access_order |-> MoveToEnd(c.access_order, key, c.max_size),
          evicted |-> NoKey, err |-> NoErr]
    ELSE IF Cardinality(DOMAIN c.cache) >= c.max_size
    THEN IF c.access_order = <<>>
         THEN [cache |-> c.cache, access_order |-> c.access_order,
               evicted |-> NoKey, err |-> "IndexError"]
         ELSE LET oldest == Head(c.access_order)
              IN [cache |-> Put(Pop(c.cache, oldest), key,
                                [compiled |-> key]),
                  access_order |-> AppendBounded(Tail(c.access_order), key,
                                                 c.max_size),
                  evicted |-> oldest, err |-> NoErr]
    ELSE [cache |-> Put(c.cache, key, [compiled |-> key]),
          access_order |-> AppendBounded(c.access_order, key, c.max_size),
          evicted |-> NoKey, err |-> NoErr]

\* a thread calls get(pattern, flags) and waits for the lock
CallGet(th, key) ==
    /\ scan.op = "pattern_cache"
    /\ scan.calls < MaxGets
    /\ inflight[th].pc = "idle"
    /\ inflight' = [inflight EXCEPT ![th] = [pc |-> "waiting", key |-> key]]
    /\ scan' = [scan EXCEPT !.calls = @ + 1]
    /\ UNCHANGED <<tsVars, detVars>>

\* with self._lock: the lock is free
AcquireLock(th) ==
    /\ scan.op = "pattern_cache"
    /\ inflight[th].pc = "waiting"
    /\ scan.lock = NoName
    /\ scan' = [scan EXCEPT !.lock = th]
    /\ inflight' = [inflight EXCEPT ![th].pc = "locked"]
    /\ UNCHANGED <<tsVars, detVars>>

\* the body of get runs and the lock is released; used and inserted record
\* (history) at which get a cached key was last asked for and was stored
GetLocked(th) ==
    /\ scan.op = "pattern_cache"
    /\ inflight[th].pc = "locked"
    /\ LET key == inflight[th].key
           r == PatternCacheGet(scan, key)
           t == scan.gets + 1
       IN scan' = [scan EXCEPT
                     !.cache = r.cache,
                     !.access_order = r.access_order,
                     !.lock = NoName,
                     !.gets = t,
                     !.evicted = r.evicted,
                     !.err = r.err,
                     !.used = IF r.err = NoErr THEN Put(@, key, t) ELSE @,
                     !.inserted = IF r.err = NoErr /\ key \notin DOMAIN scan.cache
                                  THEN Put(@, key, t) ELSE @]
    /\ inflight' = [inflight EXCEPT ![th] = [pc |-> "idle", key |-> NoKey]]
    /\ UNCHANGED <<tsVars, detVars>>

InitPatternCache ==
    /\ \E max_size \in 0..MaxCacheSize :
          scan = [op |-> "pattern_cache", cache |-> [k \in {} |-> None],
                  access_order |-> <<>>, max_size |-> max_size,
                  lock |-> NoName, calls |-> 0, gets |-> 0,
                  evicted |-> NoKey, err |-> NoErr,
                  used |-> [k \in {} |-> 0], inserted |-> [k \in {} |-> 0]]
    /\ inflight = [th \in CacheThreads |-> [pc |-> "idle", key |-> NoKey]]
    /\ disk = EmptyDir
    /\ templates = EmptyDir
    /\ template_versions = EmptyDir
    /\ dependencies = NoDeps
    /\ cache = EmptyCache
    /\ edits = 0
    /\ lastReload = NoName
    /\ ret = Ret("__init__", NoName, None, NoErr)
    /\ det = IdleDet
    /\ now = 0
    /\ user_disk = EmptyDir
    /\ self_patterns = NoPatterns
    /\ _cache = EmptyResults

NextPatternCache ==
    \/ \E th \in CacheThreads, key \in PatternKeys : CallGet(th, key)
    \/ \E th \in CacheThreads : AcquireLock(th)
    \/ \E th \in CacheThreads : GetLocked(th)

SpecPatternCache == InitPatternCache /\ [][NextPatternCache]_vars

\* C30: after any sequence of get calls from any number of threads the cache
\* holds at most max_size patterns, the access-order queue contains exactly
\* the cached keys with no duplicates, and the key evicted when a new pattern
\* arrives at capacity is the least recently used one.
C30_BoundedLru ==
    scan.op = "pattern_cache" =>
        /\ Cardinality(DOMAIN scan.cache) <= scan.max_size
        /\ { scan.access_order[i] : i \in 1..Len(scan.access_order) }
              = DOMAIN scan.cache
        /\ Len(scan.access_order) = Cardinality(DOMAIN scan.cache)
        /\ scan.evicted # NoKey =>
              /\ scan.evicted \notin DOMAIN scan.cache
              /\ \A k \in DOMAIN scan.cache :
                    scan.used[scan.evicted] < scan.used[k]

\* a get evicted a key although a key stored before it is still cached,
\* having been asked for again since
C30_Witness ==
    /\ scan.op = "pattern_cache"
    /\ scan.evicted # NoKey
    /\ \E k \in DOMAIN scan.cache :
          scan.inserted[k] < scan.inserted[scan.evicted]

====
